---- MODULE Spec2Model ----
(***************************************************************************)
(* A model of the FreeRDP server peer (libfreerdp/core/peer.c): the        *)
(* connection state machine driver, the PDU dispatcher and the static      *)
(* virtual channel multiplex.                                              *)
(***************************************************************************)
EXTENDS Integers, Sequences, FiniteSets, TLC

(***************************************************************************)
(* Bounds of the model.                                                    *)
(***************************************************************************)
\* at most this many channel-join requests are needed to finish the MCS join
MaxJoins == 2
\* the longest buffer handed to VirtualChannelWrite
MaxLength == 4
\* the largest VCChunkSize
MaxChunkSize == 3
\* a write is followed for at most this many chunks
MaxChunks == 5
\* the most MCS channels a peer has
MaxChannels == 2
\* the most peer-channels allocated in a run; allocation fails beyond
MaxPeerChannels == 2
\* the PDUs the application-level calls Close and SendChannelData write at most
MaxSent == 5
\* the threads that call into the pipe module at the same time
MaxThreads == 2
\* the named-pipe objects the allocator can hold at the same time
MaxPipes == 3
\* the file descriptors the process can have open at the same time, beyond 0, 1 and 2
MaxFds == 4
\* the same two limits in the process whose reads, writes and connects are explored
IoPipes == 1
IoFds == 3
\* the same two limits in the process whose threads call at the same time
MtPipes == 2
MtFds == 3

(***************************************************************************)
(* Connection states, in the linear order of the server state machine.     *)
(***************************************************************************)
StateOrder ==
  << "INITIAL", "NEGO", "MCS_CREATE_REQUEST", "MCS_ERECT_DOMAIN",
     "MCS_ATTACH_USER", "MCS_CHANNEL_JOIN_REQUEST",
     "RDP_SECURITY_COMMENCEMENT", "SECURE_SETTINGS_EXCHANGE",
     "CONNECT_TIME_AUTO_DETECT_REQUEST", "CONNECT_TIME_AUTO_DETECT_RESPONSE",
     "LICENSING", "MULTITRANSPORT_BOOTSTRAPPING_REQUEST",
     "MULTITRANSPORT_BOOTSTRAPPING_RESPONSE",
     "CAPABILITIES_EXCHANGE_DEMAND_ACTIVE",
     "CAPABILITIES_EXCHANGE_MONITOR_LAYOUT",
     "CAPABILITIES_EXCHANGE_CONFIRM_ACTIVE",
     "FINALIZATION_SYNC", "FINALIZATION_COOPERATE",
     "FINALIZATION_REQUEST_CONTROL", "FINALIZATION_PERSISTENT_KEY_LIST",
     "FINALIZATION_FONT_LIST", "ACTIVE" >>

States == { StateOrder[i] : i \in 1..Len(StateOrder) }

\* position of a state in the linear order
Rank(s) == CHOOSE i \in 1..Len(StateOrder) : StateOrder[i] = s

(***************************************************************************)
(* state_run_t and its predicates.                                         *)
(***************************************************************************)
Outcomes == { "SUCCESS", "CONTINUE", "TRY_AGAIN", "FAILED", "QUIT_SESSION", "ACTIVE" }

state_run_failed(r) == r = "FAILED"

state_run_success(r) == r \in { "SUCCESS", "CONTINUE", "ACTIVE" }

state_run_continue(r) == r \in { "TRY_AGAIN", "CONTINUE" }

(***************************************************************************)
(* The application hooks of a peer and the finalization flags.             *)
(***************************************************************************)
HookNames ==
  { "PostConnect", "Activate", "Capabilities", "Logon", "ReachedState",
    "AdjustMonitorsLayout" }

FinalizeFlags ==
  { "CS_SYNCHRONIZE_PDU", "CS_CONTROL_COOPERATE_PDU", "CS_CONTROL_REQUEST_PDU",
    "CS_PERSISTENT_KEY_LIST_PDU", "CS_FONT_LIST_PDU", "DEACTIVATE_REACTIVATE" }

\* the security protocols a negotiation can select; PROTOCOL_RDP is the empty set of bits
Protocols == { {}, {"SSL"}, {"HYBRID"}, {"RDSTLS"} }

(***************************************************************************)
(* Client PDUs.  framing: what tpkt_verify_header finds; kind: the PDU;    *)
(* form: "ok", "badheader" (a header does not parse), "badbody" (the body  *)
(* does not parse) or "trailing" (the body parses and bytes of the         *)
(* declared length remain unread after it).                                *)
(***************************************************************************)
DataKinds ==
  { "DATA_SYNCHRONIZE", "DATA_CONTROL_COOPERATE", "DATA_CONTROL_REQUEST",
    "DATA_INPUT", "DATA_PERSISTENT_KEY_LIST", "DATA_FONT_LIST",
    "DATA_SHUTDOWN_REQUEST", "DATA_FRAME_ACKNOWLEDGE", "DATA_REFRESH_RECT",
    "DATA_SUPPRESS_OUTPUT", "DATA_UNKNOWN" }

GlobalKinds == DataKinds \cup { "CONFIRM_ACTIVE", "FLOW", "UNKNOWN_PDUTYPE" }

ConnectKinds ==
  { "X224_CONNECTION_REQUEST", "MCS_CONNECT_INITIAL", "MCS_ERECT_DOMAIN_REQUEST",
    "MCS_ATTACH_USER_REQUEST", "MCS_CHANNEL_JOIN_REQUEST", "SECURITY_EXCHANGE",
    "CLIENT_INFO" }

MessageKinds == { "AUTODETECT_RESPONSE", "LICENSE", "MULTITRANSPORT_RESPONSE" }

Kinds == GlobalKinds \cup ConnectKinds \cup MessageKinds \cup { "CHANNEL_DATA" }

\* kinds whose handler reads no body
BodylessKinds == { "DATA_SHUTDOWN_REQUEST", "DATA_UNKNOWN", "UNKNOWN_PDUTYPE" }

Forms == { "ok", "badheader", "badbody", "trailing" }

\* a PDU whose headers do not parse has no kind
Pdus ==
  { p \in [ framing : {"tpkt"}, kind : Kinds, form : Forms \ {"badheader"} ] :
      p.kind \in BodylessKinds => p.form # "badbody" }
    \cup [ framing : {"tpkt"}, kind : {"NONE"}, form : {"badheader"} ]
    \cup [ framing : {"fastpath"}, kind : {"FASTPATH_INPUT"}, form : {"ok", "badbody"} ]
    \cup [ framing : {"fastpath", "invalid"}, kind : {"NONE"}, form : {"badheader"} ]

NoPdu == [ framing |-> "none", kind |-> "NONE", form |-> "ok" ]

VARIABLES
  rdp,        \* the RDP core: connection state, finalization flags, sub-machines
  client,     \* the freerdp_peer fields: connected, activated, authenticated, identity
  settings,   \* the settings the driver reads and writes
  hooks,      \* the application hooks that are set on the peer
  pc,         \* "idle": waiting for the transport; "run": inside the loop of
              \* peer_recv_callback; "done": the callback has returned rc; "closed"
  stream,     \* the PDU handed to the callback and how much of it is unread
  rc,         \* the outcome of the last run of peer_recv_callback_internal
  wire,       \* what the server sent during the current callback, in order
  obs,        \* observations of the hooks: what they were called with and how often
  vcw,        \* the frame of freerdp_peer_virtual_channel_write: its arguments and locals
  vcwire,     \* the channel chunks the current write has sent, in order
  mcs,        \* the MCS channels of the peer: Name, joined, ChannelId, handle
  chanHeap, \* the peer-channels allocated so far, by address; freed ones are kept
  chcall,     \* the last VirtualChannelOpen or VirtualChannelClose: arguments and result
  transport,  \* the transport of the peer: "attached", or "disconnected" after Disconnect
  closed,     \* whether Close has been called on the peer
  lcwire,     \* the PDUs Close and SendChannelData have written to the wire, in order
  lccall,     \* the last Close, Disconnect or SendChannelData: its result and what it wrote
  threads,    \* the threads that call into the pipe module
  g_NamedPipeServerSockets, \* the global registry pointer: 0 is NULL, else an index of lists
  lists,      \* the array lists allocated so far: the owner of the lock, and the entries
  pipes,      \* the WINPR_NAMED_PIPE objects, by address
  fds,        \* the file descriptor table of the process
  th,         \* each thread's position in CreateNamedPipeA or NamedPipeCloseHandle and
              \* its locals
  pcall,      \* the last call into the pipe module that returned: arguments and result
  life        \* the peer object from freerdp_peer_new to freerdp_peer_free: its socket,
              \* its context, the hooks of the application and the last call

vars ==
  << rdp, client, settings, hooks, pc, stream, rc, wire, obs, vcw, vcwire,
     mcs, chanHeap, chcall, transport, closed, lcwire, lccall,
     threads, g_NamedPipeServerSockets, lists, pipes, fds, th, pcall, life >>

\* the variables of the connection state machine, and those of the channel write
peerVars == << rdp, client, settings, hooks, pc, stream, rc, wire, obs >>

vcVars == << vcw, vcwire >>

\* the variables of the channel bindings
chanVars == << mcs, chanHeap, chcall >>

\* the variables of the calls that end a session
lcVars == << transport, closed, lcwire, lccall >>

\* the variables of the pipe module
pipeVars == << threads, g_NamedPipeServerSockets, lists, pipes, fds, th, pcall >>

\* the variables of the construction and destruction of a peer
lifeVars == << life >>


(***************************************************************************)
(* Operators on the machine m = [rdp, client, settings, wire, rem, obs]:   *)
(* the peer's state together with the unread part of the stream            *)
(* ("all": at the start of the PDU, "trail": only trailing bytes are left, *)
(* "none": everything is read).  A handler returns [ret, m].               *)
(***************************************************************************)
rdp_get_state(m) == m.rdp.state

rdp_server_transition_to_state(m, s) == [ m EXCEPT !.rdp.state = s ]

rdp_finalize_is_flag_set(m, f) == f \in m.rdp.finalize

rdp_finalize_set_flag(m, f) == [ m EXCEPT !.rdp.finalize = @ \cup {f} ]

Stream_GetRemainingLength(m) == IF m.rem = "none" THEN 0 ELSE 1

\* the server puts msg on the wire
Send(m, msg) == [ m EXCEPT !.wire = Append(@, msg) ]

\* a parser has read the PDU: only its trailing bytes, if any, remain
Consume(m, pdu) == [ m EXCEPT !.rem = IF pdu.form = "trailing" THEN "trail" ELSE "none" ]

\* the stream is at the start of a slow-path PDU of this kind whose headers and body parse
Parses(m, pdu, kind) ==
  /\ m.rem = "all"
  /\ pdu.framing = "tpkt"
  /\ pdu.kind = kind
  /\ pdu.form \in { "ok", "trailing" }

Ret(r, m) == [ ret |-> r, m |-> m ]

(***************************************************************************)
(* The sub-layers the driver calls (connection sequence, MCS, licence,     *)
(* auto-detect, capabilities, finalization).                               *)
(***************************************************************************)
\* X.224 negotiation: selects a protocol and answers with a connection confirm
rdp_server_accept_nego(m, pdu, proto) ==
  IF Parses(m, pdu, "X224_CONNECTION_REQUEST")
  THEN [ ok |-> TRUE,
         m |-> Send(Consume([ m EXCEPT !.rdp.protocol = proto ], pdu), "X224_CONNECTION_CONFIRM") ]
  ELSE [ ok |-> FALSE, m |-> [ m EXCEPT !.rdp.protocol = {"FAILED_NEGO"} ] ]

rdp_server_accept_mcs_connect_initial(m, pdu, n) ==
  IF Parses(m, pdu, "MCS_CONNECT_INITIAL")
  THEN [ ok |-> TRUE,
         m |-> rdp_server_transition_to_state(
                 Send(Consume([ m EXCEPT !.rdp.joinsLeft = n ], pdu), "MCS_CONNECT_RESPONSE"),
                 "MCS_ERECT_DOMAIN") ]
  ELSE [ ok |-> FALSE, m |-> m ]

rdp_server_accept_mcs_erect_domain_request(m, pdu) ==
  IF Parses(m, pdu, "MCS_ERECT_DOMAIN_REQUEST")
  THEN [ ok |-> TRUE,
         m |-> rdp_server_transition_to_state(Consume(m, pdu), "MCS_ATTACH_USER") ]
  ELSE [ ok |-> FALSE, m |-> m ]

rdp_server_accept_mcs_attach_user_request(m, pdu) ==
  IF Parses(m, pdu, "MCS_ATTACH_USER_REQUEST")
  THEN [ ok |-> TRUE,
         m |-> rdp_server_transition_to_state(
                 Send(Consume(m, pdu), "MCS_ATTACH_USER_CONFIRM"),
                 "MCS_CHANNEL_JOIN_REQUEST") ]
  ELSE [ ok |-> FALSE, m |-> m ]

\* each join is confirmed; the MCS layer advances once all channels are joined
rdp_server_accept_mcs_channel_join_request(m, pdu) ==
  IF Parses(m, pdu, "MCS_CHANNEL_JOIN_REQUEST")
  THEN LET m1 == Send(Consume([ m EXCEPT !.rdp.joinsLeft = @ - 1 ], pdu),
                      "MCS_CHANNEL_JOIN_CONFIRM")
       IN [ ok |-> TRUE,
            m |-> IF m1.rdp.joinsLeft > 0 THEN m1
                  ELSE IF m1.settings.RdpSecurity
                       THEN rdp_server_transition_to_state(m1, "RDP_SECURITY_COMMENCEMENT")
                       ELSE rdp_server_transition_to_state(m1, "SECURE_SETTINGS_EXCHANGE") ]
  ELSE [ ok |-> FALSE, m |-> m ]

rdp_server_establish_keys(m, pdu) ==
  IF Parses(m, pdu, "SECURITY_EXCHANGE")
  THEN [ ok |-> TRUE, m |-> Consume(m, pdu) ]
  ELSE [ ok |-> FALSE, m |-> m ]

rdp_recv_client_info(m, pdu) ==
  IF Parses(m, pdu, "CLIENT_INFO")
  THEN [ ok |-> TRUE, m |-> Consume(m, pdu) ]
  ELSE [ ok |-> FALSE, m |-> m ]

\* Confirm Active is accepted in CAPABILITIES_EXCHANGE_CONFIRM_ACTIVE only
rdp_server_accept_confirm_active(m, pdu) ==
  IF /\ pdu.form \in { "ok", "trailing" }
     /\ rdp_get_state(m) = "CAPABILITIES_EXCHANGE_CONFIRM_ACTIVE"
  THEN [ ok |-> TRUE,
         m |-> rdp_server_transition_to_state(Consume(m, pdu), "FINALIZATION_SYNC") ]
  ELSE [ ok |-> FALSE, m |-> m ]

\* a finalization PDU records its flag, in whatever state it arrives
FinalizationPdu(m, pdu, flag) ==
  IF pdu.form \in { "ok", "trailing" }
  THEN [ ok |-> TRUE, m |-> rdp_finalize_set_flag(Consume(m, pdu), flag) ]
  ELSE [ ok |-> FALSE, m |-> m ]

rdp_recv_client_synchronize_pdu(m, pdu) == FinalizationPdu(m, pdu, "CS_SYNCHRONIZE_PDU")

rdp_server_accept_client_control_pdu(m, pdu) ==
  FinalizationPdu(m, pdu,
                  IF pdu.kind = "DATA_CONTROL_COOPERATE"
                  THEN "CS_CONTROL_COOPERATE_PDU" ELSE "CS_CONTROL_REQUEST_PDU")

rdp_server_accept_client_persistent_key_list_pdu(m, pdu) ==
  FinalizationPdu(m, pdu, "CS_PERSISTENT_KEY_LIST_PDU")

\* the font list is answered by the font map
rdp_server_accept_client_font_list_pdu(m, pdu) ==
  LET r == FinalizationPdu(m, pdu, "CS_FONT_LIST_PDU")
  IN IF r.ok THEN [ ok |-> TRUE, m |-> Send(r.m, "FONT_MAP") ] ELSE r

\* a body that is parsed and handed to the input or update layer
BodyPdu(m, pdu) ==
  IF pdu.form \in { "ok", "trailing" }
  THEN [ ok |-> TRUE, m |-> Consume(m, pdu) ]
  ELSE [ ok |-> FALSE, m |-> m ]

input_recv(m, pdu) ==
  LET r == BodyPdu(m, pdu)
  IN IF r.ok THEN [ ok |-> TRUE, m |-> [ r.m EXCEPT !.obs.input = "slowpath" ] ] ELSE r

update_read_refresh_rect(m, pdu) == BodyPdu(m, pdu)

update_read_suppress_output(m, pdu) == BodyPdu(m, pdu)

freerdp_channel_peer_process(m, pdu) ==
  LET r == BodyPdu(m, pdu)
  IN IF r.ok THEN [ ok |-> TRUE, m |-> [ r.m EXCEPT !.obs.channel = TRUE ] ] ELSE r

mcs_send_disconnect_provider_ultimatum(m) == Send(m, "DISCONNECT_PROVIDER_ULTIMATUM")

freerdp_shall_disconnect_context(m) == m.rdp.abort

(***************************************************************************)
(* The message channel (auto-detect, licence and multitransport PDUs).     *)
(* e holds what the environment decides during one run of a handler.       *)
(***************************************************************************)
\* slow-path PDUs up to LICENSING: licence PDUs and auto-detect responses
rdp_handle_message_channel(m, pdu, e) ==
  IF pdu.form \notin { "ok", "trailing" } THEN Ret("FAILED", m)
  ELSE IF pdu.kind = "AUTODETECT_RESPONSE" THEN Ret("SUCCESS", Consume(m, pdu))
  ELSE IF /\ pdu.kind = "LICENSE"
          /\ rdp_get_state(m) = "LICENSING"
          /\ m.rdp.license = "IN_PROGRESS"
       THEN CASE e.license = "COMPLETED" ->
                   Ret("CONTINUE", Consume([ m EXCEPT !.rdp.license = "COMPLETED" ], pdu))
              [] e.license = "IN_PROGRESS" -> Ret("SUCCESS", Consume(m, pdu))
              [] OTHER -> Ret("FAILED", [ m EXCEPT !.rdp.license = "ABORTED" ])
  ELSE Ret("FAILED", m)

\* message-channel PDUs after LICENSING
rdp_recv_message_channel_pdu(m, pdu, e) ==
  IF pdu.form \notin { "ok", "trailing" } THEN Ret("FAILED", m)
  ELSE IF pdu.kind = "AUTODETECT_RESPONSE" THEN Ret("SUCCESS", Consume(m, pdu))
  ELSE IF /\ pdu.kind = "MULTITRANSPORT_RESPONSE"
          /\ rdp_get_state(m) = "MULTITRANSPORT_BOOTSTRAPPING_RESPONSE"
       THEN Ret("CONTINUE",
                rdp_server_transition_to_state(Consume(m, pdu),
                                               "CAPABILITIES_EXCHANGE_DEMAND_ACTIVE"))
  ELSE Ret("FAILED", m)

\* the message channel exists when auto-detect or multitransport was negotiated
messageChannelId(m) ==
  IF m.settings.NetworkAutoDetect \/ m.settings.SupportMultitransport THEN 1 ELSE 0

\* the MCS and security headers of a slow-path data PDU
rdp_read_header(m, pdu) ==
  /\ m.rem = "all"
  /\ pdu.form # "badheader"
  /\ pdu.kind \notin ConnectKinds

\* a PDU whose security header or MAC is wrong counts among the bad headers
rdp_handle_optional_rdp_decryption(m, pdu) == pdu.form # "badheader"

tpkt_ensure_stream_consumed(m) == Stream_GetRemainingLength(m) = 0

(***************************************************************************)
(* The PDU dispatcher.                                                     *)
(***************************************************************************)
\* a variant for which a data PDU of an unknown type is a protocol error
peer_recv_data_pdu_strict(m0, pdu, e) ==
  LET \* the share data header gives the type of the PDU
      m == [ m0 EXCEPT !.obs.dataType = pdu.kind ]
      Handled(r) == IF r.ok THEN Ret("SUCCESS", r.m) ELSE Ret("FAILED", r.m)
      \* a bodyless PDU ends with its headers
      h == IF pdu.kind \in BodylessKinds THEN Consume(m, pdu) ELSE m
  IN CASE pdu.kind = "DATA_SYNCHRONIZE" -> Handled(rdp_recv_client_synchronize_pdu(m, pdu))
       [] pdu.kind \in { "DATA_CONTROL_COOPERATE", "DATA_CONTROL_REQUEST" } ->
            Handled(rdp_server_accept_client_control_pdu(m, pdu))
       [] pdu.kind = "DATA_INPUT" -> Handled(input_recv(m, pdu))
       [] pdu.kind = "DATA_PERSISTENT_KEY_LIST" ->
            Handled(rdp_server_accept_client_persistent_key_list_pdu(m, pdu))
       [] pdu.kind = "DATA_FONT_LIST" ->
            LET r == rdp_server_accept_client_font_list_pdu(m, pdu)
            IN IF r.ok THEN Ret("CONTINUE", r.m) ELSE Ret("FAILED", r.m)
       [] pdu.kind = "DATA_SHUTDOWN_REQUEST" ->
            Ret("QUIT_SESSION", mcs_send_disconnect_provider_ultimatum(h))
       [] pdu.kind = "DATA_FRAME_ACKNOWLEDGE" ->
            IF pdu.form \in { "ok", "trailing" }
            THEN \* client->ack_frame_id is set; the model keeps that the frame was acknowledged
                 Ret("SUCCESS", [ Consume(m, pdu) EXCEPT !.obs.frameAck = TRUE ])
            ELSE Ret("FAILED", m)
       [] pdu.kind = "DATA_REFRESH_RECT" -> Handled(update_read_refresh_rect(m, pdu))
       [] pdu.kind = "DATA_SUPPRESS_OUTPUT" -> Handled(update_read_suppress_output(m, pdu))
       [] OTHER -> Ret("FAILED", h)

peer_recv_data_pdu(m0, pdu, e) ==
  LET \* the share data header gives the type of the PDU
      m == [ m0 EXCEPT !.obs.dataType = pdu.kind ]
      Handled(r) == IF r.ok THEN Ret("SUCCESS", r.m) ELSE Ret("FAILED", r.m)
      \* a bodyless PDU ends with its headers
      h == IF pdu.kind \in BodylessKinds THEN Consume(m, pdu) ELSE m
  IN CASE pdu.kind = "DATA_SYNCHRONIZE" -> Handled(rdp_recv_client_synchronize_pdu(m, pdu))
       [] pdu.kind \in { "DATA_CONTROL_COOPERATE", "DATA_CONTROL_REQUEST" } ->
            Handled(rdp_server_accept_client_control_pdu(m, pdu))
       [] pdu.kind = "DATA_INPUT" -> Handled(input_recv(m, pdu))
       [] pdu.kind = "DATA_PERSISTENT_KEY_LIST" ->
            Handled(rdp_server_accept_client_persistent_key_list_pdu(m, pdu))
       [] pdu.kind = "DATA_FONT_LIST" ->
            LET r == rdp_server_accept_client_font_list_pdu(m, pdu)
            IN IF r.ok THEN Ret("CONTINUE", r.m) ELSE Ret("FAILED", r.m)
       [] pdu.kind = "DATA_SHUTDOWN_REQUEST" ->
            Ret("QUIT_SESSION", mcs_send_disconnect_provider_ultimatum(h))
       [] pdu.kind = "DATA_FRAME_ACKNOWLEDGE" ->
            IF pdu.form \in { "ok", "trailing" }
            THEN \* client->ack_frame_id is set; the model keeps that the frame was acknowledged
                 Ret("SUCCESS", [ Consume(m, pdu) EXCEPT !.obs.frameAck = TRUE ])
            ELSE Ret("FAILED", m)
       [] pdu.kind = "DATA_REFRESH_RECT" -> Handled(update_read_refresh_rect(m, pdu))
       [] pdu.kind = "DATA_SUPPRESS_OUTPUT" -> Handled(update_read_suppress_output(m, pdu))
       [] OTHER -> Ret("SUCCESS", h)

peer_recv_tpkt_pdu(m, pdu, e) ==
  IF ~rdp_read_header(m, pdu) THEN Ret("FAILED", m)
  ELSE IF freerdp_shall_disconnect_context(m) THEN Ret("SUCCESS", m)
  ELSE IF Rank(rdp_get_state(m)) <= Rank("LICENSING")
       THEN rdp_handle_message_channel(m, pdu, e)
  ELSE IF ~rdp_handle_optional_rdp_decryption(m, pdu) THEN Ret("FAILED", m)
  ELSE LET \* done: the branch returns at once; else the stream is checked first
           Break(d) == [ done |-> FALSE, ret |-> d.ret, m |-> d.m ]
           Return(d) == [ done |-> TRUE, ret |-> d.ret, m |-> d.m ]
           Accepted(a) == IF a.ok THEN [ done |-> FALSE, ret |-> "SUCCESS", m |-> a.m ]
                          ELSE [ done |-> TRUE, ret |-> "FAILED", m |-> a.m ]
           \* the pduSource of the share control header
           m1 == [ m EXCEPT !.settings.PduSource = e.pduSource ]
           End(r) == IF r.done THEN Ret(r.ret, r.m)
                     ELSE IF ~tpkt_ensure_stream_consumed(r.m) THEN Ret("FAILED", r.m)
                     ELSE Ret(r.ret, r.m)
       IN End(IF pdu.kind \in GlobalKinds
              THEN CASE pdu.kind \in DataKinds -> Break(peer_recv_data_pdu(m1, pdu, e))
                     [] pdu.kind = "CONFIRM_ACTIVE" ->
                          Accepted(rdp_server_accept_confirm_active(m1, pdu))
                     [] pdu.kind = "FLOW" -> Accepted(BodyPdu(m1, pdu))
                     [] OTHER -> [ done |-> TRUE, ret |-> "FAILED", m |-> m1 ]
              ELSE IF messageChannelId(m) > 0 /\ pdu.kind \in MessageKinds
              THEN Return(rdp_recv_message_channel_pdu(m, pdu, e))
              ELSE Accepted(freerdp_channel_peer_process(m, pdu)))

peer_recv_fastpath_pdu(m, pdu, e) ==
  IF m.rem # "all" \/ pdu.framing # "fastpath" \/ pdu.form = "badheader" THEN Ret("FAILED", m)
  ELSE IF ~rdp_handle_optional_rdp_decryption(m, pdu) THEN Ret("FAILED", m)
  ELSE IF pdu.form = "badbody" THEN Ret("FAILED", m)
  ELSE Ret("SUCCESS", [ Consume(m, pdu) EXCEPT !.obs.input = "fastpath" ])

\* > 0: a TPKT header, 0: no TPKT version byte, < 0: a broken TPKT header or nothing to read
tpkt_verify_header(m, pdu) ==
  IF m.rem # "all" \/ pdu.framing = "invalid" THEN -1
  ELSE IF pdu.framing = "tpkt" THEN 1 ELSE 0

\* the outcome of the dispatcher is kept in obs.dispatched
peer_recv_pdu(m, pdu, e) ==
  LET v == tpkt_verify_header(m, pdu)
      Dispatched(r) == Ret(r.ret, [ r.m EXCEPT !.obs.dispatched = r.ret ])
  IN Dispatched(IF v > 0 THEN peer_recv_tpkt_pdu(m, pdu, e)
                ELSE IF v = 0 THEN peer_recv_fastpath_pdu(m, pdu, e)
                ELSE Ret("FAILED", m))

(***************************************************************************)
(* The per-state handlers of the driver.                                   *)
(***************************************************************************)
\* the values a client puts in the pduSource field of a share control header: the
\* id of its MCS user channel, or another one
PduSources == { "client", "other" }

\* what the environment decides, and the pduSource of the PDU, when nothing else is said
E0 ==
  [ hook |-> TRUE, postConnect |-> TRUE, activate |-> "true", sendOk |-> TRUE,
    license |-> "COMPLETED", autodetect |-> "COMPLETE",
    multitransport |-> "SUCCESS", pduSource |-> "client" ]

\* the server starts a reactivation: Deactivate-All, then the capability exchange again
rdp_server_reactivate(m) ==
  rdp_server_transition_to_state(
    Send([ m EXCEPT !.client.activated = FALSE,
                    !.rdp.finalize = { "DEACTIVATE_REACTIVATE" },
                    !.obs.reactivated = TRUE ],
         "DEACTIVATE_ALL"),
    "CAPABILITIES_EXCHANGE_DEMAND_ACTIVE")

\* a variant that asks for another run on an unexpected message
peer_unexpected_client_message_again(m, flag) == "CONTINUE"

peer_unexpected_client_message(m, flag) == "SUCCESS"

peer_recv_handle_auto_detect(m, pdu, e) ==
  IF m.settings.NetworkAutoDetect
  THEN IF rdp_get_state(m) = "CONNECT_TIME_AUTO_DETECT_REQUEST"
       THEN LET m1 == [ m EXCEPT !.rdp.autodetect = e.autodetect ]
            IN CASE e.autodetect = "REQUEST" ->
                      Ret("SUCCESS",
                          rdp_server_transition_to_state(Send(m1, "AUTODETECT_REQUEST"),
                                                         "CONNECT_TIME_AUTO_DETECT_RESPONSE"))
                 [] e.autodetect = "COMPLETE" ->
                      Ret("CONTINUE", rdp_server_transition_to_state(m1, "LICENSING"))
                 [] OTHER -> Ret("FAILED", m1)
       ELSE LET Progress(r) ==
                  IF state_run_success(r.ret)
                  THEN LET m1 == [ r.m EXCEPT !.rdp.autodetect = e.autodetect ]
                       IN CASE e.autodetect = "REQUEST" ->
                                 Ret("SUCCESS", Send(m1, "AUTODETECT_REQUEST"))
                            [] e.autodetect = "COMPLETE" ->
                                 Ret("CONTINUE",
                                     rdp_server_transition_to_state(m1, "LICENSING"))
                            [] OTHER -> Ret(r.ret, m1)
                  ELSE r
            IN Progress(peer_recv_pdu(m, pdu, e))
  ELSE Ret("CONTINUE", rdp_server_transition_to_state(m, "LICENSING"))

\* a variant that waits for a client PDU after the valid-client packet
peer_recv_handle_licensing_wait(m, pdu, e) ==
  CASE m.rdp.license = "INITIAL" ->
         IF m.settings.ServerLicenseRequired
         THEN IF ~e.sendOk THEN Ret("FAILED", m)
              ELSE Ret("SUCCESS", Send([ m EXCEPT !.rdp.license = "IN_PROGRESS" ],
                                       "LICENSE_REQUEST"))
         ELSE IF e.sendOk
              THEN Ret("SUCCESS", Send([ m EXCEPT !.rdp.license = "IN_PROGRESS" ],
                                       "LICENSE_VALID_CLIENT"))
              ELSE Ret("FAILED", m)
    [] m.rdp.license = "COMPLETED" -> Ret("CONTINUE", m)
    [] m.rdp.license = "ABORTED" -> Ret("FAILED", m)
    [] OTHER -> peer_recv_pdu(m, pdu, e)

peer_recv_handle_licensing(m, pdu, e) ==
  CASE m.rdp.license = "INITIAL" ->
         IF m.settings.ServerLicenseRequired
         THEN IF ~e.sendOk THEN Ret("FAILED", m)
              ELSE Ret("SUCCESS", Send([ m EXCEPT !.rdp.license = "IN_PROGRESS" ],
                                       "LICENSE_REQUEST"))
         ELSE IF e.sendOk
              THEN Ret("CONTINUE", Send([ m EXCEPT !.rdp.license = "COMPLETED" ],
                                        "LICENSE_VALID_CLIENT"))
              ELSE Ret("FAILED", m)
    [] m.rdp.license = "COMPLETED" -> Ret("CONTINUE", m)
    [] m.rdp.license = "ABORTED" -> Ret("FAILED", m)
    [] OTHER -> peer_recv_pdu(m, pdu, e)

\* a variant that falls back to LICENSING after the Demand Active
rdp_peer_handle_state_demand_active_backward(m, e) ==
  IF "Capabilities" \in hooks /\ ~e.hook
  THEN Ret("FAILED", [ m EXCEPT !.obs.capabilities = "false" ])
  ELSE LET m1 == IF "Capabilities" \in hooks
                 THEN [ m EXCEPT !.obs.capabilities = "true" ] ELSE m
       IN IF ~e.sendOk THEN Ret("FAILED", m1)
          ELSE Ret("CONTINUE",
                   rdp_server_transition_to_state(Send(m1, "DEMAND_ACTIVE"), "LICENSING"))

\* a variant that goes on whatever the Capabilities hook returns
rdp_peer_handle_state_demand_active_ignore(m, e) ==
  LET m1 == IF "Capabilities" \in hooks
            THEN [ m EXCEPT !.obs.capabilities = IF e.hook THEN "true" ELSE "false" ] ELSE m
  IN IF ~e.sendOk THEN Ret("FAILED", m1)
     ELSE Ret("CONTINUE",
              rdp_server_transition_to_state(Send(m1, "DEMAND_ACTIVE"),
                                             "CAPABILITIES_EXCHANGE_MONITOR_LAYOUT"))

rdp_peer_handle_state_demand_active(m, e) ==
  IF "Capabilities" \in hooks /\ ~e.hook
  THEN Ret("FAILED", [ m EXCEPT !.obs.capabilities = "false" ])
  ELSE LET m1 == IF "Capabilities" \in hooks
                 THEN [ m EXCEPT !.obs.capabilities = "true" ] ELSE m
       IN IF ~e.sendOk THEN Ret("FAILED", m1)
          ELSE Ret("CONTINUE",
                   rdp_server_transition_to_state(Send(m1, "DEMAND_ACTIVE"),
                                                  "CAPABILITIES_EXCHANGE_MONITOR_LAYOUT"))

\* a variant that calls PostConnect whenever the peer is not activated
rdp_peer_handle_state_active_again(m, e) ==
  LET m1 == IF ~m.client.activated /\ "PostConnect" \in hooks
            THEN [ m EXCEPT !.client.connected = e.postConnect,
                            !.obs.postConnect = @ + 1,
                            !.obs.postConnectRet = IF e.postConnect THEN "true" ELSE "false" ]
            ELSE m
  IN IF ~m1.client.connected THEN Ret("FAILED", m1)
     ELSE IF ~m1.client.activated
     THEN LET m2 == [ m1 EXCEPT !.client.activated = TRUE ]
          IN IF "Activate" \in hooks
             THEN LET m3 == [ m2 EXCEPT !.obs.activate = @ + 1, !.obs.activateRet = e.activate ]
                  IN CASE e.activate = "true" -> Ret("SUCCESS", m3)
                       [] e.activate = "reactivate" -> Ret("SUCCESS", rdp_server_reactivate(m3))
                       [] OTHER -> Ret("FAILED", m3)
             ELSE Ret("SUCCESS", m2)
     ELSE Ret("ACTIVE", m1)

\* a variant that activates a peer whose PostConnect has failed or is not set
rdp_peer_handle_state_active_unconnected(m, e) ==
  LET \* IFCALLRET(client->PostConnect, client->connected, client)
      m1 == IF ~m.client.connected /\ "PostConnect" \in hooks
            THEN [ m EXCEPT !.client.connected = e.postConnect,
                            !.obs.postConnect = @ + 1,
                            !.obs.postConnectRet = IF e.postConnect THEN "true" ELSE "false" ]
            ELSE m
  IN IF ~m1.client.activated
     THEN LET m2 == [ m1 EXCEPT !.client.activated = TRUE ]
          IN IF "Activate" \in hooks
             THEN LET m3 == [ m2 EXCEPT !.obs.activate = @ + 1, !.obs.activateRet = e.activate ]
                  IN CASE e.activate = "true" -> Ret("SUCCESS", m3)
                       [] e.activate = "reactivate" -> Ret("SUCCESS", rdp_server_reactivate(m3))
                       [] OTHER -> Ret("FAILED", m3)
             ELSE Ret("SUCCESS", m2)
     ELSE Ret("ACTIVE", m1)

rdp_peer_handle_state_active(m, e) ==
  LET \* IFCALLRET(client->PostConnect, client->connected, client)
      m1 == IF ~m.client.connected /\ "PostConnect" \in hooks
            THEN [ m EXCEPT !.client.connected = e.postConnect,
                            !.obs.postConnect = @ + 1,
                            !.obs.postConnectRet = IF e.postConnect THEN "true" ELSE "false" ]
            ELSE m
  IN IF ~m1.client.connected THEN Ret("FAILED", m1)
     ELSE IF ~m1.client.activated
     THEN LET m2 == [ m1 EXCEPT !.client.activated = TRUE ]
          IN IF "Activate" \in hooks
             THEN LET m3 == [ m2 EXCEPT !.obs.activate = @ + 1, !.obs.activateRet = e.activate ]
                  IN CASE e.activate = "true" -> Ret("SUCCESS", m3)
                       [] e.activate = "reactivate" -> Ret("SUCCESS", rdp_server_reactivate(m3))
                       [] OTHER -> Ret("FAILED", m3)
             ELSE Ret("SUCCESS", m2)
     ELSE Ret("ACTIVE", m1)

(***************************************************************************)
(* The cases of peer_recv_callback_internal: one operator per state.       *)
(***************************************************************************)
case_INITIAL(m, e) ==
  IF ~e.hook THEN Ret("FAILED", m)
  ELSE Ret("CONTINUE", rdp_server_transition_to_state(m, "NEGO"))

\* a variant that calls Logon before the identity is copied and keeps the NLA state
case_NEGO_early(m, pdu, proto, e) ==
  LET a == rdp_server_accept_nego(m, pdu, proto)
  IN IF ~a.ok THEN Ret("FAILED", a.m)
     ELSE LET SelectedProtocol == a.m.rdp.protocol
              m1 == [ a.m EXCEPT !.settings.RdstlsSecurity = "RDSTLS" \in SelectedProtocol,
                                 !.settings.NlaSecurity = "HYBRID" \in SelectedProtocol,
                                 !.settings.TlsSecurity = "SSL" \in SelectedProtocol,
                                 !.settings.RdpSecurity = (SelectedProtocol = {}) ]
              m3 == IF "Logon" \in hooks
                    THEN [ m1 EXCEPT !.client.authenticated = e.hook,
                                     !.obs.logon = "manual" ]
                    ELSE m1
          IN Ret("SUCCESS", rdp_server_transition_to_state(m3, "MCS_CREATE_REQUEST"))

\* a variant in which a Logon hook that returns false ends the connection
case_NEGO_logon_decides(m, pdu, proto, e) ==
  LET a == rdp_server_accept_nego(m, pdu, proto)
  IN IF ~a.ok THEN Ret("FAILED", a.m)
     ELSE LET SelectedProtocol == a.m.rdp.protocol
              m1 == [ a.m EXCEPT !.settings.RdstlsSecurity = "RDSTLS" \in SelectedProtocol,
                                 !.settings.NlaSecurity = "HYBRID" \in SelectedProtocol,
                                 !.settings.TlsSecurity = "SSL" \in SelectedProtocol,
                                 !.settings.RdpSecurity = (SelectedProtocol = {}) ]
              automatic == "HYBRID" \in SelectedProtocol
              m2 == IF automatic THEN [ m1 EXCEPT !.client.identity = "nla" ] ELSE m1
              m3 == IF "Logon" \in hooks
                    THEN [ m2 EXCEPT !.client.authenticated = e.hook,
                                     !.obs.logon = IF automatic THEN "automatic" ELSE "manual" ]
                    ELSE m2
              m4 == IF automatic THEN [ m3 EXCEPT !.rdp.nla = "freed" ] ELSE m3
          IN IF "Logon" \in hooks /\ ~m4.client.authenticated THEN Ret("FAILED", m4)
             ELSE Ret("SUCCESS", rdp_server_transition_to_state(m4, "MCS_CREATE_REQUEST"))

\* a variant that keeps RDP security on for every protocol but NLA
case_NEGO_rdp_fallback(m, pdu, proto, e) ==
  LET a == rdp_server_accept_nego(m, pdu, proto)
  IN IF ~a.ok THEN Ret("FAILED", a.m)
     ELSE LET SelectedProtocol == a.m.rdp.protocol
              m1 == [ a.m EXCEPT !.settings.RdstlsSecurity = "RDSTLS" \in SelectedProtocol,
                                 !.settings.NlaSecurity = "HYBRID" \in SelectedProtocol,
                                 !.settings.TlsSecurity = "SSL" \in SelectedProtocol,
                                 !.settings.RdpSecurity = ("HYBRID" \notin SelectedProtocol) ]
              automatic == "HYBRID" \in SelectedProtocol
              m2 == IF automatic THEN [ m1 EXCEPT !.client.identity = "nla" ] ELSE m1
              m3 == IF "Logon" \in hooks
                    THEN [ m2 EXCEPT !.client.authenticated = e.hook,
                                     !.obs.logon = IF automatic THEN "automatic" ELSE "manual" ]
                    ELSE m2
              m4 == IF automatic THEN [ m3 EXCEPT !.rdp.nla = "freed" ] ELSE m3
          IN Ret("SUCCESS", rdp_server_transition_to_state(m4, "MCS_CREATE_REQUEST"))

case_NEGO(m, pdu, proto, e) ==
  LET a == rdp_server_accept_nego(m, pdu, proto)
  IN IF ~a.ok THEN Ret("FAILED", a.m)
     ELSE LET SelectedProtocol == a.m.rdp.protocol
              m1 == [ a.m EXCEPT !.settings.RdstlsSecurity = "RDSTLS" \in SelectedProtocol,
                                 !.settings.NlaSecurity = "HYBRID" \in SelectedProtocol,
                                 !.settings.TlsSecurity = "SSL" \in SelectedProtocol,
                                 !.settings.RdpSecurity = (SelectedProtocol = {}) ]
              automatic == "HYBRID" \in SelectedProtocol
              m2 == IF automatic THEN [ m1 EXCEPT !.client.identity = "nla" ] ELSE m1
              m3 == IF "Logon" \in hooks
                    THEN [ m2 EXCEPT !.client.authenticated = e.hook,
                                     !.obs.logon = IF automatic THEN "automatic" ELSE "manual" ]
                    ELSE m2
              m4 == IF automatic THEN [ m3 EXCEPT !.rdp.nla = "freed" ] ELSE m3
          IN Ret("SUCCESS", rdp_server_transition_to_state(m4, "MCS_CREATE_REQUEST"))

case_MCS_CREATE_REQUEST(m, pdu, n) ==
  LET a == rdp_server_accept_mcs_connect_initial(m, pdu, n)
  IN IF ~a.ok THEN Ret("FAILED", a.m) ELSE Ret("SUCCESS", a.m)

case_MCS_ERECT_DOMAIN(m, pdu) ==
  LET a == rdp_server_accept_mcs_erect_domain_request(m, pdu)
  IN IF ~a.ok THEN Ret("FAILED", a.m) ELSE Ret("SUCCESS", a.m)

case_MCS_ATTACH_USER(m, pdu) ==
  LET a == rdp_server_accept_mcs_attach_user_request(m, pdu)
  IN IF ~a.ok THEN Ret("FAILED", a.m) ELSE Ret("SUCCESS", a.m)

case_MCS_CHANNEL_JOIN_REQUEST(m, pdu) ==
  LET a == rdp_server_accept_mcs_channel_join_request(m, pdu)
  IN IF ~a.ok THEN Ret("FAILED", a.m) ELSE Ret("SUCCESS", a.m)

case_RDP_SECURITY_COMMENCEMENT(m, pdu) ==
  LET a == rdp_server_establish_keys(m, pdu)
  IN IF ~a.ok THEN Ret("FAILED", a.m)
     ELSE LET m1 == rdp_server_transition_to_state(a.m, "SECURE_SETTINGS_EXCHANGE")
          IN IF Stream_GetRemainingLength(m1) > 0 THEN Ret("CONTINUE", m1)
             ELSE Ret("SUCCESS", m1)

case_SECURE_SETTINGS_EXCHANGE(m, pdu) ==
  LET a == rdp_recv_client_info(m, pdu)
  IN IF a.ok
     THEN Ret("CONTINUE",
              rdp_server_transition_to_state(a.m, "CONNECT_TIME_AUTO_DETECT_REQUEST"))
     ELSE Ret("FAILED", a.m)

case_CONNECT_TIME_AUTO_DETECT(m, pdu, e) == peer_recv_handle_auto_detect(m, pdu, e)

\* a variant that leaves LICENSING on every outcome that is not a failure
case_LICENSING_eager(m, pdu, e) ==
  LET Licensed(r) ==
        IF state_run_success(r.ret)
        THEN Ret("CONTINUE",
                 rdp_server_transition_to_state(r.m, "MULTITRANSPORT_BOOTSTRAPPING_REQUEST"))
        ELSE r
  IN Licensed(peer_recv_handle_licensing(m, pdu, e))

case_LICENSING(m, pdu, e) ==
  LET Licensed(r) ==
        IF r.ret = "CONTINUE"
        THEN Ret("CONTINUE",
                 rdp_server_transition_to_state(r.m, "MULTITRANSPORT_BOOTSTRAPPING_REQUEST"))
        ELSE r
  IN Licensed(peer_recv_handle_licensing(m, pdu, e))

case_MULTITRANSPORT_BOOTSTRAPPING_REQUEST(m, e) ==
  IF m.settings.SupportMultitransport /\ "UDPFECR" \in m.settings.MultitransportFlags
  THEN \* multitransport_server_request: sent, mismatch or failure
       CASE e.multitransport = "SUCCESS" ->
              Ret("SUCCESS",
                  rdp_server_transition_to_state(Send(m, "MULTITRANSPORT_REQUEST"),
                                                 "MULTITRANSPORT_BOOTSTRAPPING_RESPONSE"))
         [] e.multitransport = "CONTINUE" ->
              Ret("CONTINUE",
                  rdp_server_transition_to_state(m, "CAPABILITIES_EXCHANGE_DEMAND_ACTIVE"))
         [] OTHER -> Ret("FAILED", m)
  ELSE Ret("CONTINUE",
           rdp_server_transition_to_state(m, "CAPABILITIES_EXCHANGE_DEMAND_ACTIVE"))

case_MULTITRANSPORT_BOOTSTRAPPING_RESPONSE(m, pdu, e) == peer_recv_pdu(m, pdu, e)

case_CAPABILITIES_EXCHANGE_DEMAND_ACTIVE(m, e) == rdp_peer_handle_state_demand_active(m, e)

case_CAPABILITIES_EXCHANGE_MONITOR_LAYOUT(m, e) ==
  LET r ==
        IF m.settings.SupportMonitorLayoutPdu
        THEN LET \* the hook may configure monitors of its own
                 m1 == IF "AdjustMonitorsLayout" \in hooks
                       THEN [ m EXCEPT !.obs.adjustMonitors = TRUE,
                                       !.settings.MonitorCount =
                                          IF e.hook THEN 1 ELSE @ ]
                       ELSE m
                 m2 == IF m1.settings.MonitorCount = 0
                       THEN \* a default primary monitor
                            [ m1 EXCEPT !.settings.MonitorCount = 1 ]
                       ELSE m1
                 sent == IF e.sendOk THEN Ret("SUCCESS", Send(m2, "MONITOR_LAYOUT"))
                         ELSE Ret("FAILED", m2)
             IN IF ~state_run_failed(sent.ret) /\ Stream_GetRemainingLength(sent.m) > 0
                THEN Ret("CONTINUE", sent.m) ELSE sent
        ELSE IF Stream_GetRemainingLength(m) > 0 THEN Ret("CONTINUE", m)
             ELSE Ret("SUCCESS", m)
  IN IF state_run_success(r.ret)
     THEN Ret(r.ret, rdp_server_transition_to_state(r.m, "CAPABILITIES_EXCHANGE_CONFIRM_ACTIVE"))
     ELSE r

\* a variant that takes nothing but a Confirm Active
case_CAPABILITIES_EXCHANGE_CONFIRM_ACTIVE_only(m, pdu, e) ==
  IF pdu.kind = "CONFIRM_ACTIVE" THEN peer_recv_pdu(m, pdu, e) ELSE Ret("FAILED", m)

case_CAPABILITIES_EXCHANGE_CONFIRM_ACTIVE(m, pdu, e) == peer_recv_pdu(m, pdu, e)

case_FINALIZATION_SYNC(m, pdu, e) ==
  LET Received_(r) ==
        IF rdp_finalize_is_flag_set(r.m, "CS_SYNCHRONIZE_PDU")
        THEN Ret(r.ret, rdp_server_transition_to_state(r.m, "FINALIZATION_COOPERATE"))
        ELSE Ret(peer_unexpected_client_message(r.m, "CS_SYNCHRONIZE_PDU"), r.m)
  IN Received_(peer_recv_pdu(m, pdu, e))

\* a variant that advances whatever the client has sent
case_FINALIZATION_COOPERATE_any(m, pdu, e) ==
  LET Received_(r) ==
        Ret(r.ret, rdp_server_transition_to_state(r.m, "FINALIZATION_REQUEST_CONTROL"))
  IN Received_(peer_recv_pdu(m, pdu, e))

case_FINALIZATION_COOPERATE(m, pdu, e) ==
  LET Received_(r) ==
        IF rdp_finalize_is_flag_set(r.m, "CS_CONTROL_COOPERATE_PDU")
        THEN Ret(r.ret, rdp_server_transition_to_state(r.m, "FINALIZATION_REQUEST_CONTROL"))
        ELSE Ret(peer_unexpected_client_message(r.m, "CS_CONTROL_COOPERATE_PDU"), r.m)
  IN Received_(peer_recv_pdu(m, pdu, e))

\* a variant that goes on when the control-granted PDU could not be sent
case_FINALIZATION_REQUEST_CONTROL_unsent(m, pdu, e) ==
  LET Received_(r) ==
        IF rdp_finalize_is_flag_set(r.m, "CS_CONTROL_REQUEST_PDU")
        THEN Ret(r.ret,
                 rdp_server_transition_to_state(IF e.sendOk THEN Send(r.m, "CONTROL_GRANTED")
                                                ELSE r.m,
                                                "FINALIZATION_PERSISTENT_KEY_LIST"))
        ELSE Ret(peer_unexpected_client_message(r.m, "CS_CONTROL_REQUEST_PDU"), r.m)
  IN Received_(peer_recv_pdu(m, pdu, e))

case_FINALIZATION_REQUEST_CONTROL(m, pdu, e) ==
  LET Received_(r) ==
        IF rdp_finalize_is_flag_set(r.m, "CS_CONTROL_REQUEST_PDU")
        THEN IF ~e.sendOk THEN Ret("FAILED", r.m)
             ELSE Ret(r.ret,
                      rdp_server_transition_to_state(Send(r.m, "CONTROL_GRANTED"),
                                                     "FINALIZATION_PERSISTENT_KEY_LIST"))
        ELSE Ret(peer_unexpected_client_message(r.m, "CS_CONTROL_REQUEST_PDU"), r.m)
  IN Received_(peer_recv_pdu(m, pdu, e))

case_FINALIZATION_PERSISTENT_KEY_LIST(m, pdu, e) ==
  IF /\ m.settings.BitmapCachePersistEnabled
     /\ ~rdp_finalize_is_flag_set(m, "DEACTIVATE_REACTIVATE")
  THEN LET Received_(r) ==
             IF rdp_finalize_is_flag_set(r.m, "CS_PERSISTENT_KEY_LIST_PDU")
             THEN Ret(r.ret, rdp_server_transition_to_state(r.m, "FINALIZATION_FONT_LIST"))
             ELSE Ret(peer_unexpected_client_message(r.m, "FINALIZATION_FONT_LIST"), r.m)
       IN Received_(peer_recv_pdu(m, pdu, e))
  ELSE Ret("CONTINUE", rdp_server_transition_to_state(m, "FINALIZATION_FONT_LIST"))

\* a variant that starts the finalization over after the font list
case_FINALIZATION_FONT_LIST_restart(m, pdu, e) ==
  LET Received_(r) ==
        IF state_run_success(r.ret)
        THEN IF rdp_finalize_is_flag_set(r.m, "CS_FONT_LIST_PDU")
             THEN Ret("SUCCESS", rdp_server_transition_to_state(r.m, "FINALIZATION_SYNC"))
             ELSE Ret(peer_unexpected_client_message(r.m, "CS_FONT_LIST_PDU"), r.m)
        ELSE r
  IN Received_(peer_recv_pdu(m, pdu, e))

case_FINALIZATION_FONT_LIST(m, pdu, e) ==
  LET Received_(r) ==
        IF state_run_success(r.ret)
        THEN IF rdp_finalize_is_flag_set(r.m, "CS_FONT_LIST_PDU")
             THEN \* update_reset_state; a new activation begins
                  Ret("CONTINUE",
                      rdp_server_transition_to_state([ r.m EXCEPT !.obs.activate = 0 ],
                                                     "ACTIVE"))
             ELSE Ret(peer_unexpected_client_message(r.m, "CS_FONT_LIST_PDU"), r.m)
        ELSE r
  IN Received_(peer_recv_pdu(m, pdu, e))

\* a variant that turns QUIT_SESSION into SUCCESS
case_ACTIVE_swallow(m, pdu, e) ==
  LET Swallow(d) == IF d.ret = "QUIT_SESSION" THEN Ret("SUCCESS", d.m) ELSE d
      Handled(r) == IF r.ret = "ACTIVE" THEN Swallow(peer_recv_pdu(r.m, pdu, e)) ELSE r
  IN Handled(rdp_peer_handle_state_active(m, e))

case_ACTIVE(m, pdu, e) ==
  LET Handled(r) == IF r.ret = "ACTIVE" THEN peer_recv_pdu(r.m, pdu, e) ELSE r
  IN Handled(rdp_peer_handle_state_active(m, e))

(***************************************************************************)
(* Static virtual channels: the handle of an open channel and the chunked  *)
(* write.                                                                  *)
(***************************************************************************)
Bytes == { "a", "b" }

\* the buffers handed to a write: buffer[0..length)
Buffers == UNION { [ 1..n -> Bytes ] : n \in 0..MaxLength }

ChannelIds == { 1004, 1005 }

\* an open peer channel: its MCS channel id, its flags and the options of its MCS channel
PeerChannels ==
  [ channelId : ChannelIds, channelFlags : SUBSET { "DYNAMIC" },
    options : SUBSET { "SHOW_PROTOCOL" } ]

\* no handle
NULL == [ channelId |-> 0, channelFlags |-> {}, options |-> {} ]

Handles == PeerChannels \cup { NULL }

\* the size of the next chunk of the write w
ChunkSizeOf(w) ==
  IF w.length > w.maxChunkSize THEN settings.VCChunkSize ELSE w.length

\* a variant that never marks a chunk as the last
ChunkFlagsOf_noLast(w) ==
  w.flags \cup (IF "SHOW_PROTOCOL" \in w.hChannel.options THEN { "SHOW_PROTOCOL" } ELSE {})

\* the flags of the next chunk of the write w
ChunkFlagsOf(w) ==
  w.flags
    \cup (IF w.length > w.maxChunkSize THEN {} ELSE { "LAST" })
    \cup (IF "SHOW_PROTOCOL" \in w.hChannel.options THEN { "SHOW_PROTOCOL" } ELSE {})

\* a variant that writes one byte less than the chunk holds
ChunkOf_short(w) ==
  [ channelId |-> w.hChannel.channelId,
    totalLength |-> w.totalLength,
    flags |-> ChunkFlagsOf(w),
    data |-> SubSeq(w.data, w.buffer + 1, w.buffer + ChunkSizeOf(w) - 1) ]

\* the chunk the write w sends next: the header and chunkSize bytes of the buffer
ChunkOf(w) ==
  [ channelId |-> w.hChannel.channelId,
    totalLength |-> w.totalLength,
    flags |-> ChunkFlagsOf(w),
    data |-> SubSeq(w.data, w.buffer + 1, w.buffer + ChunkSizeOf(w)) ]

(***************************************************************************)
(* Static virtual channels: names, the MCS channel table and the           *)
(* peer-channels bound to it.                                              *)
(***************************************************************************)
\* the longest name of a static virtual channel
SvcMaxNameLength == 8

Chars == { "a", "A", "b", "B" }

ToLower(c) == CASE c = "A" -> "a" [] c = "B" -> "b" [] OTHER -> c

\* the character of the C string s at position i (from 1); past its end, the terminator
CharAt(s, i) == IF i <= Len(s) THEN s[i] ELSE "NUL"

strnlen(s, n) == IF Len(s) < n THEN Len(s) ELSE n

\* compares at most n characters, ignoring case, from position i on: 0 when equal
RECURSIVE StrnicmpFrom(_, _, _, _)
StrnicmpFrom(s1, s2, i, n) ==
  IF i > n THEN 0
  ELSE IF ToLower(CharAt(s1, i)) # ToLower(CharAt(s2, i)) THEN 1
  ELSE IF CharAt(s1, i) = "NUL" THEN 0
  ELSE StrnicmpFrom(s1, s2, i + 1, n)

strnicmp(s1, s2, n) == StrnicmpFrom(s1, s2, 1, n)

\* the names MCS channels have
ChannelNames == { << "a" >>, << "A", "b" >>, << "b" >> }

\* a name of SvcMaxNameLength + 1 characters
LongName == [ i \in 1..(SvcMaxNameLength + 1) |-> "a" ]

\* the names VirtualChannelOpen is called with
OpenNames ==
  { << >>, << "a" >>, << "a", "B" >>, << "B" >>, << "b", "a" >>, LongName }

OpenFlags == SUBSET { "DYNAMIC", "PRI_MED" }

\* the same name but for the case of its letters
SameName(s1, s2) ==
  /\ Len(s1) = Len(s2)
  /\ \A i \in 1..Len(s1) : ToLower(s1[i]) = ToLower(s2[i])

\* the MCS channel tables a peer can have: names unique, no channel open
ChannelTables ==
  UNION { { [ i \in 1..n |-> [ Name |-> names[i], joined |-> joined[i],
                               ChannelId |-> 1003 + i, handle |-> 0 ] ] :
              names \in { f \in [ 1..n -> ChannelNames ] :
                            \A i, j \in 1..n : i # j => ~SameName(f[i], f[j]) },
              joined \in [ 1..n -> BOOLEAN ] } :
          n \in 0..MaxChannels }

\* no call of VirtualChannelOpen or VirtualChannelClose yet
NoCall ==
  [ op |-> "none", name |-> << >>, flags |-> {}, h |-> 0, handle |-> 0, ok |-> FALSE,
    allocated |-> FALSE ]

\* a peer without channels
InitNoChannels ==
  /\ mcs = << >>
  /\ chanHeap = << >>
  /\ chcall = NoCall

\* no call of Close, Disconnect or SendChannelData yet
NoLcCall == [ op |-> "none", ret |-> FALSE, wrote |-> << >>, afterClose |-> FALSE ]

\* the threads, the pipe names, the addresses of the pipe objects, the descriptors
ThreadIds == 1..MaxThreads

PipeNames == { "p", "q" }

\* the addresses the allocator has for pipe objects, and the descriptors of the process
PipeIds == DOMAIN pipes

FdRange == DOMAIN fds

\* a descriptor that is not open, and a WINPR_NAMED_PIPE slot that is not allocated
NoFd == [ kind |-> "free", name |-> "" ]

FreePipe ==
  [ state |-> "free", name |-> "", serverfd |-> -1, clientfd |-> -1, ServerMode |-> FALSE,
    pfnUnrefNamedPipe |-> FALSE, dwFlagsAndAttributes |-> {} ]

IdleThread == [ pc |-> "idle", name |-> "", pipe |-> 0, ret |-> 0 ]

NoPipeCall ==
  [ t |-> 0, op |-> "none", h |-> 0, name |-> "", overlapped |-> FALSE, ret |-> 0,
    lastError |-> "NONE", io |-> FALSE, errno |-> "none", n |-> 0 ]

\* a process with the threads ts, room for np pipe objects and nf descriptors, that has
\* not called into the pipe module: the registry pointer is NULL
InitPipesWith(ts, np, nf) ==
  /\ threads = ts
  /\ g_NamedPipeServerSockets = 0
  /\ lists = << >>
  /\ pipes = [ p \in 1..np |-> FreePipe ]
  /\ fds = [ fd \in 3..(2 + nf) |-> NoFd ]
  /\ th = [ t \in ThreadIds |-> IdleThread ]
  /\ pcall = NoPipeCall

InitNoPipes == InitPipesWith({}, MaxPipes, MaxFds)

\* the socket descriptors freerdp_peer_new is called with
SockFds == { -1, 5 }

\* the last call of the life cycle: ContextFree, when the call invoked it, was given
\* the context freeArg, on which ContextNew had or had not been invoked; closed counts
\* the closes of the socket in the call; asked is the RdpSecurity Initialize found
NoLifeCall ==
  [ op |-> "none", ret |-> FALSE, failedAt |-> "none", freeArg |-> "none",
    freeAfterNew |-> FALSE, closed |-> 0, asked |-> FALSE, transitioned |-> FALSE ]

\* no peer object yet; the application has set the hooks hs and accepted the socket fd
LifeWith(hs, fd) ==
  [ client |-> "NULL", sockfd |-> fd, fd |-> fd, context |-> "NULL", transportFd |-> -1,
    newCalled |-> FALSE, closes |-> 0, hooks |-> hs,
    settings |-> [ RdpServerCertificate |-> "none", RdpSecurity |-> FALSE,
                   UseRdpSecurityLayer |-> FALSE ],
    call |-> NoLifeCall ]

InitNoLife == life = LifeWith({}, -1)

\* a peer on which none of them has been called
InitOpen ==
  /\ transport = "attached"
  /\ closed = FALSE
  /\ lcwire = << >>
  /\ lccall = NoLcCall

(***************************************************************************)
(* The initial state: a peer after freerdp_peer_new, context_new and       *)
(* Initialize, its transport attached.                                     *)
(***************************************************************************)
NoStream == [ pdu |-> NoPdu, rem |-> "none" ]

Obs0 ==
  [ reachedLast |-> "NONE", reachedPrev |-> "NONE", reported |-> FALSE, reactivated |-> FALSE,
    input |-> "none", channel |-> FALSE, frameAck |-> FALSE, capabilities |-> "none",
    adjustMonitors |-> FALSE, logon |-> "none",
    postConnect |-> 0, postConnectRet |-> "none",
    activate |-> 0, activateRet |-> "none",
    dispatched |-> "none", dataType |-> "none", reentered |-> FALSE ]

\* the feature toggles of the optional stages of the connection sequence
Stages ==
  { "NetworkAutoDetect", "ServerLicenseRequired", "SupportMultitransport",
    "BitmapCachePersistEnabled", "SupportMonitorLayoutPdu" }

\* the settings of a peer on which the stages in on are enabled
SettingsWith(on) ==
  [ NetworkAutoDetect |-> "NetworkAutoDetect" \in on,
    ServerLicenseRequired |-> "ServerLicenseRequired" \in on,
    SupportMultitransport |-> "SupportMultitransport" \in on,
    MultitransportFlags |-> {"UDPFECR"},
    BitmapCachePersistEnabled |-> "BitmapCachePersistEnabled" \in on,
    SupportMonitorLayoutPdu |-> "SupportMonitorLayoutPdu" \in on,
    RdpSecurity |-> TRUE, TlsSecurity |-> TRUE, NlaSecurity |-> TRUE,
    RdstlsSecurity |-> FALSE, MonitorCount |-> 0, PduSource |-> "unset",
    VCChunkSize |-> MaxChunkSize, SupportErrorInfoPdu |-> TRUE ]

\* the configurations explored: every optional stage enabled, or all but one
SettingsInit == { SettingsWith(Stages) } \cup { SettingsWith(Stages \ {t}) : t \in Stages }

\* the hooks explored: every hook set, or all but one
HooksInit == { HookNames } \cup { HookNames \ {h} : h \in HookNames }

\* no write is running
NoWrite ==
  [ pc |-> "idle", hChannel |-> NULL, data |-> << >>, buffer |-> 0, length |-> 0,
    totalLength |-> 0, flags |-> {}, maxChunkSize |-> 0, ret |-> 0 ]

Rdp0 ==
  [ state |-> "INITIAL", finalize |-> {}, license |-> "INITIAL",
    autodetect |-> "INITIAL", joinsLeft |-> 0, protocol |-> {}, nla |-> "none",
    abort |-> FALSE ]

Client0 ==
  [ connected |-> FALSE, activated |-> FALSE, authenticated |-> FALSE,
    identity |-> "none" ]

InitPeer ==
  /\ rdp = Rdp0
  /\ client = Client0
  /\ vcw = NoWrite
  /\ vcwire = << >>
  /\ InitNoChannels
  /\ InitOpen
  /\ InitNoPipes
  /\ InitNoLife
  /\ settings \in SettingsInit
  /\ hooks \in HooksInit
  \* a peer with an unset hook is explored with every optional stage enabled
  /\ hooks # HookNames => settings = SettingsWith(Stages)
  /\ pc = "idle"
  /\ stream = NoStream
  /\ rc = "NONE"
  /\ wire = << >>
  /\ obs = Obs0

(***************************************************************************)
(* peer_recv_callback: the transport hands one PDU to the driver, which    *)
(* runs peer_recv_callback_internal once, and again while the outcome asks *)
(* to continue.  Each Run_ action below is one run of the loop body in one *)
(* connection state.                                                       *)
(***************************************************************************)
\* the first run of a callback (pc = "idle") is on a PDU fresh from the transport,
\* a later one (pc = "run") on the stream the run before it left
Received == IF pc = "idle" THEN Pdus ELSE { stream.pdu }

\* the machine at the start of one run of peer_recv_callback_internal: the read
\* position is rewound after TRY_AGAIN and the ReachedState hook sees the state
Machine ==
  [ rdp |-> rdp, client |-> client, settings |-> settings,
    wire |-> IF pc = "idle" THEN << >> ELSE wire,
    rem |-> IF pc = "idle" \/ rc = "TRY_AGAIN" THEN "all" ELSE stream.rem,
    obs |-> IF "ReachedState" \in hooks
            THEN [ obs EXCEPT !.reachedPrev = obs.reachedLast,
                              !.reachedLast = rdp.state,
                              !.reported = TRUE,
                              !.reentered = obs.reactivated,
                              !.reactivated = FALSE,
                              !.dispatched = "none", !.dataType = "none" ]
            ELSE [ obs EXCEPT !.dispatched = "none", !.dataType = "none" ] ]

\* the end of one run: the loop goes on while the outcome is CONTINUE or TRY_AGAIN,
\* else the callback returns the outcome
Finish(r, pdu) ==
  /\ rdp' = r.m.rdp
  /\ client' = r.m.client
  /\ settings' = r.m.settings
  /\ wire' = r.m.wire
  /\ obs' = r.m.obs
  /\ rc' = r.ret
  /\ pc' = IF state_run_continue(r.ret) THEN "run" ELSE "done"
  /\ stream' = [ pdu |-> IF state_run_continue(r.ret) THEN pdu ELSE NoPdu, rem |-> r.m.rem ]
  /\ UNCHANGED << hooks, vcVars, chanVars, lcVars, pipeVars, lifeVars >>

\* the callback has returned rc: the transport closes the peer when the outcome is
\* FAILED or QUIT_SESSION; what was observed during the callback is forgotten
peer_recv_callback_return ==
  /\ pc = "done"
  /\ pc' = IF rc \in { "FAILED", "QUIT_SESSION" } THEN "closed" ELSE "idle"
  /\ rc' = "NONE"
  /\ wire' = << >>
  /\ obs' = [ obs EXCEPT !.input = "none", !.channel = FALSE, !.frameAck = FALSE,
                         !.capabilities = "none", !.adjustMonitors = FALSE,
                         !.postConnectRet = "none", !.activateRet = "none",
                         !.dispatched = "none", !.dataType = "none",
                         !.reachedPrev = "NONE", !.reported = FALSE, !.reentered = FALSE ]
  /\ stream' = NoStream
  /\ UNCHANGED << rdp, client, settings, hooks, vcVars, chanVars, lcVars, pipeVars, lifeVars >>

InState(s) == pc \in { "idle", "run" } /\ rdp.state = s

Run_INITIAL ==
  /\ InState("INITIAL")
  /\ \E pdu \in Received, ok \in BOOLEAN : Finish(case_INITIAL(Machine, [ E0 EXCEPT !.hook = ok ]), pdu)

Run_NEGO ==
  /\ InState("NEGO")
  /\ \E pdu \in Received, proto \in Protocols, h \in BOOLEAN :
       Finish(case_NEGO(Machine, pdu, proto, [ E0 EXCEPT !.hook = h ]), pdu)

Run_MCS_CREATE_REQUEST ==
  /\ InState("MCS_CREATE_REQUEST")
  /\ \E pdu \in Received, n \in 1..MaxJoins : Finish(case_MCS_CREATE_REQUEST(Machine, pdu, n), pdu)

Run_MCS_ERECT_DOMAIN ==
  /\ InState("MCS_ERECT_DOMAIN")
  /\ \E pdu \in Received :
       Finish(case_MCS_ERECT_DOMAIN(Machine, pdu), pdu)

Run_MCS_ATTACH_USER ==
  /\ InState("MCS_ATTACH_USER")
  /\ \E pdu \in Received :
       Finish(case_MCS_ATTACH_USER(Machine, pdu), pdu)

Run_MCS_CHANNEL_JOIN_REQUEST ==
  /\ InState("MCS_CHANNEL_JOIN_REQUEST")
  /\ \E pdu \in Received :
       Finish(case_MCS_CHANNEL_JOIN_REQUEST(Machine, pdu), pdu)

Run_RDP_SECURITY_COMMENCEMENT ==
  /\ InState("RDP_SECURITY_COMMENCEMENT")
  /\ \E pdu \in Received :
       Finish(case_RDP_SECURITY_COMMENCEMENT(Machine, pdu), pdu)

Run_SECURE_SETTINGS_EXCHANGE ==
  /\ InState("SECURE_SETTINGS_EXCHANGE")
  /\ \E pdu \in Received :
       Finish(case_SECURE_SETTINGS_EXCHANGE(Machine, pdu), pdu)

Run_CONNECT_TIME_AUTO_DETECT ==
  /\ \/ InState("CONNECT_TIME_AUTO_DETECT_REQUEST")
     \/ InState("CONNECT_TIME_AUTO_DETECT_RESPONSE")
  /\ \E pdu \in Received, ad \in { "REQUEST", "COMPLETE", "FAIL" } :
       Finish(case_CONNECT_TIME_AUTO_DETECT(Machine, pdu, [ E0 EXCEPT !.autodetect = ad ]), pdu)

Run_LICENSING ==
  /\ InState("LICENSING")
  /\ \E pdu \in Received, ok \in BOOLEAN, lic \in { "COMPLETED", "IN_PROGRESS", "ABORT" } :
       Finish(case_LICENSING(Machine, pdu, [ E0 EXCEPT !.sendOk = ok, !.license = lic ]), pdu)

Run_MULTITRANSPORT_BOOTSTRAPPING_REQUEST ==
  /\ InState("MULTITRANSPORT_BOOTSTRAPPING_REQUEST")
  /\ \E pdu \in Received, mt \in { "SUCCESS", "CONTINUE", "FAILED" } :
       Finish(case_MULTITRANSPORT_BOOTSTRAPPING_REQUEST(Machine, [ E0 EXCEPT !.multitransport = mt ]), pdu)

Run_MULTITRANSPORT_BOOTSTRAPPING_RESPONSE ==
  /\ InState("MULTITRANSPORT_BOOTSTRAPPING_RESPONSE")
  /\ \E pdu \in Received :
       Finish(case_MULTITRANSPORT_BOOTSTRAPPING_RESPONSE(Machine, pdu,
                                                         E0), pdu)

Run_CAPABILITIES_EXCHANGE_DEMAND_ACTIVE ==
  /\ InState("CAPABILITIES_EXCHANGE_DEMAND_ACTIVE")
  /\ \E pdu \in Received, h \in BOOLEAN, ok \in BOOLEAN :
       Finish(case_CAPABILITIES_EXCHANGE_DEMAND_ACTIVE(Machine,
                                                       [ E0 EXCEPT !.hook = h, !.sendOk = ok ]), pdu)

Run_CAPABILITIES_EXCHANGE_MONITOR_LAYOUT ==
  /\ InState("CAPABILITIES_EXCHANGE_MONITOR_LAYOUT")
  /\ \E pdu \in Received, h \in BOOLEAN, ok \in BOOLEAN :
       Finish(case_CAPABILITIES_EXCHANGE_MONITOR_LAYOUT(Machine,
                                                        [ E0 EXCEPT !.hook = h, !.sendOk = ok ]), pdu)

Run_CAPABILITIES_EXCHANGE_CONFIRM_ACTIVE ==
  /\ InState("CAPABILITIES_EXCHANGE_CONFIRM_ACTIVE")
  /\ \E pdu \in Received :
       Finish(case_CAPABILITIES_EXCHANGE_CONFIRM_ACTIVE(Machine, pdu,
                                                        E0), pdu)

Run_FINALIZATION_SYNC ==
  /\ InState("FINALIZATION_SYNC")
  /\ \E pdu \in Received :
       Finish(case_FINALIZATION_SYNC(Machine, pdu, E0), pdu)

Run_FINALIZATION_COOPERATE ==
  /\ InState("FINALIZATION_COOPERATE")
  /\ \E pdu \in Received :
       Finish(case_FINALIZATION_COOPERATE(Machine, pdu, E0), pdu)

Run_FINALIZATION_REQUEST_CONTROL ==
  /\ InState("FINALIZATION_REQUEST_CONTROL")
  /\ \E pdu \in Received, ok \in BOOLEAN :
       Finish(case_FINALIZATION_REQUEST_CONTROL(Machine, pdu,
                                                [ E0 EXCEPT !.sendOk = ok ]), pdu)

Run_FINALIZATION_PERSISTENT_KEY_LIST ==
  /\ InState("FINALIZATION_PERSISTENT_KEY_LIST")
  /\ \E pdu \in Received :
       Finish(case_FINALIZATION_PERSISTENT_KEY_LIST(Machine, pdu,
                                                    E0), pdu)

Run_FINALIZATION_FONT_LIST ==
  /\ InState("FINALIZATION_FONT_LIST")
  /\ \E pdu \in Received :
       Finish(case_FINALIZATION_FONT_LIST(Machine, pdu, E0), pdu)

Run_ACTIVE ==
  /\ InState("ACTIVE")
  /\ \E pdu \in Received,
        p \in IF client.connected THEN { TRUE } ELSE BOOLEAN,
        a \in IF client.activated THEN { "true" } ELSE { "true", "false", "reactivate" },
        src \in PduSources :
       Finish(case_ACTIVE(Machine, pdu,
                          [ E0 EXCEPT !.postConnect = p, !.activate = a,
                                      !.pduSource = src ]), pdu)

peer_recv_callback ==
  \/ Run_INITIAL
  \/ Run_NEGO
  \/ Run_MCS_CREATE_REQUEST
  \/ Run_MCS_ERECT_DOMAIN
  \/ Run_MCS_ATTACH_USER
  \/ Run_MCS_CHANNEL_JOIN_REQUEST
  \/ Run_RDP_SECURITY_COMMENCEMENT
  \/ Run_SECURE_SETTINGS_EXCHANGE
  \/ Run_CONNECT_TIME_AUTO_DETECT
  \/ Run_LICENSING
  \/ Run_MULTITRANSPORT_BOOTSTRAPPING_REQUEST
  \/ Run_MULTITRANSPORT_BOOTSTRAPPING_RESPONSE
  \/ Run_CAPABILITIES_EXCHANGE_DEMAND_ACTIVE
  \/ Run_CAPABILITIES_EXCHANGE_MONITOR_LAYOUT
  \/ Run_CAPABILITIES_EXCHANGE_CONFIRM_ACTIVE
  \/ Run_FINALIZATION_SYNC
  \/ Run_FINALIZATION_COOPERATE
  \/ Run_FINALIZATION_REQUEST_CONTROL
  \/ Run_FINALIZATION_PERSISTENT_KEY_LIST
  \/ Run_FINALIZATION_FONT_LIST
  \/ Run_ACTIVE

(***************************************************************************)
(* What the server application does between callbacks.  The application    *)
(* modelled here leaves the connection state to the driver: it does not    *)
(* force a state through SetState (freerdp_peer_set_state), which hands    *)
(* any state to rdp_server_transition_to_state.                            *)
(***************************************************************************)
\* the application starts a reactivation while the peer is activated
Reactivate ==
  /\ pc = "idle"
  /\ client.activated
  /\ LET m == rdp_server_reactivate([ rdp |-> rdp, client |-> client, settings |-> settings,
                                      wire |-> << >>, rem |-> "none", obs |-> obs ])
     IN /\ rdp' = m.rdp
        /\ client' = m.client
        /\ wire' = m.wire
        /\ obs' = m.obs
  /\ UNCHANGED << settings, hooks, pc, stream, rc, vcVars, chanVars, lcVars, pipeVars, lifeVars >>

\* the application asks for an established session to be aborted
AbortConnect ==
  /\ pc = "idle"
  /\ rdp.state = "ACTIVE"
  /\ ~rdp.abort
  /\ rdp' = [ rdp EXCEPT !.abort = TRUE ]
  /\ UNCHANGED << client, settings, hooks, pc, stream, rc, wire, obs, vcVars, chanVars, lcVars, pipeVars, lifeVars >>

Next ==
  \/ peer_recv_callback
  \/ peer_recv_callback_return
  \/ Reactivate
  \/ AbortConnect

Spec == InitPeer /\ [][Next]_vars

(***************************************************************************)
(* freerdp_peer_virtual_channel_write: the server application writes a     *)
(* buffer to a static virtual channel.  The entry of the call, one action  *)
(* per pass of its loop, and its return.                                   *)
(***************************************************************************)
freerdp_peer_virtual_channel_write ==
  /\ vcw.pc = "idle"
  /\ \E h \in Handles, data \in Buffers :
       vcw' = IF h = NULL \/ "DYNAMIC" \in h.channelFlags
              THEN [ NoWrite EXCEPT !.pc = "returned", !.hChannel = h, !.data = data,
                                    !.ret = -1 ]
              ELSE [ pc |-> "loop", hChannel |-> h, data |-> data, buffer |-> 0,
                     length |-> Len(data), totalLength |-> Len(data),
                     flags |-> { "FIRST" }, maxChunkSize |-> settings.VCChunkSize,
                     ret |-> 0 ]
  /\ vcwire' = << >>
  /\ UNCHANGED << peerVars, chanVars, lcVars, pipeVars, lifeVars >>

\* one pass of the loop: a chunk is built and sent, or the write gives up with -1
VCWriteChunk ==
  /\ vcw.pc = "loop"
  /\ vcw.length > 0
  /\ Len(vcwire) < MaxChunks
  /\ \E fail \in { "none", "rdp_send_stream_init", "Stream_EnsureRemainingCapacity",
                   "rdp_send" } :
       IF fail # "none"
       THEN /\ vcw' = [ vcw EXCEPT !.pc = "returned", !.ret = -1 ]
            /\ UNCHANGED vcwire
       ELSE /\ vcwire' = Append(vcwire, ChunkOf(vcw))
            /\ vcw' = [ vcw EXCEPT !.buffer = @ + ChunkSizeOf(vcw),
                                   !.length = @ - ChunkSizeOf(vcw),
                                   !.flags = {} ]
  /\ UNCHANGED << peerVars, chanVars, lcVars, pipeVars, lifeVars >>

\* nothing is left to write: the loop ends and the write returns 1
VCWriteDone ==
  /\ vcw.pc = "loop"
  /\ vcw.length = 0
  /\ vcw' = [ vcw EXCEPT !.pc = "returned", !.ret = 1 ]
  /\ UNCHANGED << vcwire, peerVars, chanVars, lcVars, pipeVars, lifeVars >>

\* the caller has the result; the frame is gone
VCWriteReturn ==
  /\ vcw.pc = "returned"
  /\ vcw' = NoWrite
  /\ vcwire' = << >>
  /\ UNCHANGED << peerVars, chanVars, lcVars, pipeVars, lifeVars >>

\* a peer on which the application writes to its channels, with some VCChunkSize
InitVC ==
  /\ rdp = Rdp0
  /\ client = Client0
  /\ \E c \in 0..MaxChunkSize : settings = [ SettingsWith(Stages) EXCEPT !.VCChunkSize = c ]
  /\ hooks = HookNames
  /\ pc = "idle"
  /\ stream = NoStream
  /\ rc = "NONE"
  /\ wire = << >>
  /\ obs = Obs0
  /\ vcw = NoWrite
  /\ vcwire = << >>
  /\ InitNoChannels
  /\ InitOpen
  /\ InitNoPipes
  /\ InitNoLife

NextVC ==
  \/ freerdp_peer_virtual_channel_write
  \/ VCWriteChunk
  \/ VCWriteDone
  \/ VCWriteReturn

SpecVC == InitVC /\ [][NextVC]_vars

(***************************************************************************)
(* freerdp_peer_virtual_channel_open and freerdp_peer_virtual_channel_close *)
(* called by the server application, each call one step.                   *)
(***************************************************************************)
\* the channels the loop of Open stops at: joined, and equal to name in the first
\* length characters
Found(name, length) ==
  { i \in 1..Len(mcs) : mcs[i].joined /\ strnicmp(name, mcs[i].Name, length) = 0 }

\* the peer-channels that are allocated and not freed
Live == { p \in 1..Len(chanHeap) : ~chanHeap[p].freed }

\* a variant that allocates a peer-channel also when the channel is already open
freerdp_peer_virtual_channel_open_again ==
  \E name \in OpenNames, flags \in OpenFlags :
    LET length == strnlen(name, SvcMaxNameLength + 1)
        call == [ NoCall EXCEPT !.op = "open", !.name = name, !.flags = flags ]
    IN /\ IF \/ "DYNAMIC" \in flags
             \/ length > SvcMaxNameLength
             \/ Found(name, length) = {}
             \/ Len(chanHeap) >= MaxPeerChannels
          THEN chcall' = call /\ UNCHANGED << mcs, chanHeap >>
          ELSE LET index == CHOOSE i \in Found(name, length) :
                              \A j \in Found(name, length) : i <= j
                   p == Len(chanHeap) + 1
               IN /\ chanHeap' =
                       Append(chanHeap,
                              [ index |-> index - 1, channelId |-> mcs[index].ChannelId,
                                channelFlags |-> flags, mcsChannel |-> index,
                                freed |-> FALSE ])
                  /\ mcs' = [ mcs EXCEPT ![index].handle = p ]
                  /\ chcall' = [ call EXCEPT !.handle = p, !.allocated = TRUE ]
       /\ UNCHANGED << peerVars, vcVars, lcVars, pipeVars, lifeVars >>

freerdp_peer_virtual_channel_open ==
  \E name \in OpenNames, flags \in OpenFlags,
     new \in IF Len(chanHeap) < MaxPeerChannels THEN BOOLEAN ELSE { FALSE } :
    LET length == strnlen(name, SvcMaxNameLength + 1)
        call == [ NoCall EXCEPT !.op = "open", !.name = name, !.flags = flags ]
        Returns(h) == /\ chcall' = [ call EXCEPT !.handle = h ]
                      /\ UNCHANGED << mcs, chanHeap >>
    IN /\ IF "DYNAMIC" \in flags THEN Returns(0)
          ELSE IF length > SvcMaxNameLength THEN Returns(0)
          ELSE IF Found(name, length) = {} THEN Returns(0)
          ELSE LET index == CHOOSE i \in Found(name, length) :
                              \A j \in Found(name, length) : i <= j
               IN IF mcs[index].handle # 0 THEN Returns(mcs[index].handle)
                  ELSE IF ~new THEN Returns(0)
                  ELSE \* server_channel_common_new has allocated a peer-channel
                       LET p == Len(chanHeap) + 1
                       IN /\ chanHeap' =
                               Append(chanHeap,
                                      [ index |-> index - 1,
                                        channelId |-> mcs[index].ChannelId,
                                        channelFlags |-> flags,
                                        mcsChannel |-> index, freed |-> FALSE ])
                          /\ mcs' = [ mcs EXCEPT ![index].handle = p ]
                          /\ chcall' = [ call EXCEPT !.handle = p, !.allocated = TRUE ]
       /\ UNCHANGED << peerVars, vcVars, lcVars, pipeVars, lifeVars >>

\* a variant that clears the handle of every MCS channel
freerdp_peer_virtual_channel_close_all ==
  \E hChannel \in Live \cup { 0 } :
    /\ IF hChannel = 0
       THEN /\ chcall' = [ NoCall EXCEPT !.op = "close", !.h = hChannel, !.ok = FALSE ]
            /\ UNCHANGED << mcs, chanHeap >>
       ELSE /\ mcs' = [ i \in 1..Len(mcs) |-> [ mcs[i] EXCEPT !.handle = 0 ] ]
            /\ chanHeap' = [ chanHeap EXCEPT ![hChannel].freed = TRUE ]
            /\ chcall' = [ NoCall EXCEPT !.op = "close", !.h = hChannel, !.ok = TRUE ]
    /\ UNCHANGED << peerVars, vcVars, lcVars, pipeVars, lifeVars >>

\* the application closes a handle it holds, or no handle
freerdp_peer_virtual_channel_close ==
  \E hChannel \in Live \cup { 0 } :
    /\ IF hChannel = 0
       THEN /\ chcall' = [ NoCall EXCEPT !.op = "close", !.h = hChannel, !.ok = FALSE ]
            /\ UNCHANGED << mcs, chanHeap >>
       ELSE /\ mcs' = [ mcs EXCEPT ![chanHeap[hChannel].mcsChannel].handle = 0 ]
            /\ chanHeap' = [ chanHeap EXCEPT ![hChannel].freed = TRUE ]
            /\ chcall' = [ NoCall EXCEPT !.op = "close", !.h = hChannel, !.ok = TRUE ]
    /\ UNCHANGED << peerVars, vcVars, lcVars, pipeVars, lifeVars >>

\* a peer with some MCS channels, none of them open
InitChan ==
  /\ rdp = Rdp0
  /\ client = Client0
  /\ settings = SettingsWith(Stages)
  /\ hooks = HookNames
  /\ pc = "idle"
  /\ stream = NoStream
  /\ rc = "NONE"
  /\ wire = << >>
  /\ obs = Obs0
  /\ vcw = NoWrite
  /\ vcwire = << >>
  /\ mcs \in ChannelTables
  /\ chanHeap = << >>
  /\ chcall = NoCall
  /\ InitOpen
  /\ InitNoPipes
  /\ InitNoLife

NextChan ==
  \/ freerdp_peer_virtual_channel_open
  \/ freerdp_peer_virtual_channel_close

SpecChan == InitChan /\ [][NextChan]_vars

(***************************************************************************)
(* freerdp_peer_close, freerdp_peer_disconnect and                         *)
(* freerdp_peer_send_channel_data called by the server application, each   *)
(* call one step.  lcwire is what these calls have written to the wire.    *)
(***************************************************************************)
\* the outcomes of one send on the transport: it can fail on an attached transport, and it
\* cannot succeed on a dropped one
SendOutcomes == IF transport = "attached" THEN BOOLEAN ELSE {FALSE}

\* the channel ids the application sends data on
SendChannelIds == { 1003, 1004 }

\* what freerdp_peer_close writes when its three sends have the outcomes deact, err and ult
CloseWrites(deact, err, ult) ==
  IF "FAILED_NEGO" \in rdp.protocol THEN << >>
  ELSE IF ~deact THEN << >>
  ELSE << "DEACTIVATE_ALL" >>
       \o (IF settings.SupportErrorInfoPdu /\ err THEN << "ERROR_INFO" >> ELSE << >>)
       \o (IF ult THEN << "DISCONNECT_PROVIDER_ULTIMATUM" >> ELSE << >>)

\* what it returns
CloseReturns(deact, err, ult) ==
  IF "FAILED_NEGO" \in rdp.protocol THEN TRUE
  ELSE IF ~deact THEN FALSE
  ELSE ult

freerdp_peer_close_hasty ==
  /\ Len(lcwire) + 3 <= MaxSent
  /\ \E deact \in SendOutcomes, err \in SendOutcomes, ult \in SendOutcomes :
       LET wrote == IF "FAILED_NEGO" \in rdp.protocol THEN << >>
                    ELSE (IF deact THEN << "DEACTIVATE_ALL" >> ELSE << >>)
                         \o (IF ult THEN << "DISCONNECT_PROVIDER_ULTIMATUM" >> ELSE << >>)
       IN /\ lcwire' = lcwire \o wrote
          /\ lccall' = [ op |-> "close", ret |-> CloseReturns(deact, err, ult),
                         wrote |-> wrote, afterClose |-> closed,
                         deact |-> deact, err |-> err, ult |-> ult ]
  /\ closed' = TRUE
  /\ UNCHANGED << transport, peerVars, vcVars, chanVars, pipeVars, lifeVars >>

freerdp_peer_close ==
  /\ Len(lcwire) + 3 <= MaxSent
  /\ \E deact \in SendOutcomes, err \in SendOutcomes, ult \in SendOutcomes :
       LET wrote == CloseWrites(deact, err, ult)
       IN /\ lcwire' = lcwire \o wrote
          /\ lccall' = [ op |-> "close", ret |-> CloseReturns(deact, err, ult),
                         wrote |-> wrote, afterClose |-> closed,
                         deact |-> deact, err |-> err, ult |-> ult ]
  /\ closed' = TRUE
  /\ UNCHANGED << transport, peerVars, vcVars, chanVars, pipeVars, lifeVars >>

\* Disconnect drops the transport and writes nothing
freerdp_peer_disconnect ==
  /\ transport = "attached"
  /\ transport' = "disconnected"
  /\ lccall' = [ op |-> "disconnect", ret |-> TRUE, wrote |-> << >>, afterClose |-> closed ]
  /\ UNCHANGED << closed, lcwire, peerVars, vcVars, chanVars, pipeVars, lifeVars >>

\* SendChannelData hands the data to rdp_send_channel_data and returns its result
freerdp_peer_send_channel_data ==
  /\ Len(lcwire) < MaxSent
  /\ \E channelId \in SendChannelIds, ok \in SendOutcomes :
       LET wrote == IF ok THEN << [ pdu |-> "CHANNEL_DATA", channelId |-> channelId ] >>
                    ELSE << >>
       IN /\ lcwire' = lcwire \o wrote
          /\ lccall' = [ op |-> "send", ret |-> ok, wrote |-> wrote, afterClose |-> closed,
                         channelId |-> channelId ]
  /\ UNCHANGED << transport, closed, peerVars, vcVars, chanVars, pipeVars, lifeVars >>

\* a connected peer, or one whose negotiation failed, with either setting of SupportErrorInfoPdu
InitClose ==
  /\ \E proto \in Protocols \cup { {"FAILED_NEGO"} } : rdp = [ Rdp0 EXCEPT !.protocol = proto ]
  /\ client = Client0
  /\ \E b \in BOOLEAN : settings = [ SettingsWith(Stages) EXCEPT !.SupportErrorInfoPdu = b ]
  /\ hooks = HookNames
  /\ pc = "idle"
  /\ stream = NoStream
  /\ rc = "NONE"
  /\ wire = << >>
  /\ obs = Obs0
  /\ vcw = NoWrite
  /\ vcwire = << >>
  /\ InitNoChannels
  /\ InitOpen
  /\ InitNoPipes
  /\ InitNoLife

NextClose ==
  \/ freerdp_peer_close
  \/ freerdp_peer_disconnect
  \/ freerdp_peer_send_channel_data

SpecClose == InitClose /\ [][NextClose]_vars

(***************************************************************************)
(* The pipe module: CreateNamedPipeA and NamedPipeCloseHandle, each a      *)
(* sequence of steps of the calling thread (the lazy creation of the       *)
(* registry, taking its lock, the locked section, releasing the lock), and *)
(* the reads, writes and connects, each one step.                          *)
(***************************************************************************)
nonPipeVars == << peerVars, vcVars, chanVars, lcVars, lifeVars >>

\* the handle CreateNamedPipeA returns when it fails
INVALID_HANDLE_VALUE == 0

\* the lowest descriptor that is free, which is the one the kernel hands out, or -1 when
\* the table is full
NewFd(f) ==
  IF \E fd \in FdRange : f[fd].kind = "free"
  THEN CHOOSE fd \in FdRange :
         f[fd].kind = "free" /\ \A o \in FdRange : f[o].kind = "free" => fd <= o
  ELSE -1

OpenFd(f, fd, kind, name) ==
  IF fd \in FdRange THEN [ f EXCEPT ![fd] = [ kind |-> kind, name |-> name ] ] ELSE f

CloseFd(f, fd) == IF fd \in FdRange THEN [ f EXCEPT ![fd] = NoFd ] ELSE f

\* the index of the first entry of the list with the name, or 0: the for loops with strcmp
FindEntry(items, name) ==
  IF \E i \in 1..Len(items) : items[i].name = name
  THEN CHOOSE i \in 1..Len(items) :
         items[i].name = name /\ \A j \in 1..(i - 1) : items[j].name # name
  ELSE 0

RemoveAt(items, i) == SubSeq(items, 1, i - 1) \o SubSeq(items, i + 1, Len(items))

\* the lowest address that is free
NewPipe == CHOOSE p \in PipeIds : pipes[p].state = "free" /\ \A o \in PipeIds :
                                    pipes[o].state = "free" => p <= o

\* ArrayList_Unlock by thread t on list l.  A thread that does not hold the lock leaves a
\* critical section it never entered: the lock is released or not (release).
ArrayList_Unlock(ls, l, t, release) ==
  IF ls[l].owner = t \/ release THEN [ ls EXCEPT ![l].owner = 0 ] ELSE ls

\* the call of thread t returns; lastError is the error it set as the thread's last error,
\* "NONE" when it set none
Returns(t, op, h, name, overlapped, ret, lastError, io, errno, n) ==
  /\ th' = [ th EXCEPT ![t] = IdleThread ]
  /\ pcall' = [ t |-> t, op |-> op, h |-> h, name |-> name, overlapped |-> overlapped,
                ret |-> ret, lastError |-> lastError, io |-> io, errno |-> errno, n |-> n ]

\* CreateNamedPipeA up to InitWinPRPipeModule: FILE_FLAG_OVERLAPPED and a NULL name
CreateNamedPipeA(t) ==
  /\ th[t].pc = "idle"
  /\ \E lpName \in PipeNames \cup {"NULL"}, overlapped \in BOOLEAN :
       IF overlapped
       THEN Returns(t, "CreateNamedPipeA", 0, lpName, TRUE, INVALID_HANDLE_VALUE,
                    "ERROR_NOT_SUPPORTED", FALSE, "none", 0)
       ELSE IF lpName = "NULL"
       THEN Returns(t, "CreateNamedPipeA", 0, lpName, FALSE, INVALID_HANDLE_VALUE,
                    "NONE", FALSE, "none", 0)
       ELSE /\ th' = [ th EXCEPT ![t].pc = "init", ![t].name = lpName ]
            /\ pcall' = NoPipeCall
  /\ UNCHANGED << threads, g_NamedPipeServerSockets, lists, pipes, fds, nonPipeVars >>

\* InitWinPRPipeModule: the test of the global pointer
InitWinPRPipeModule(t) ==
  /\ th[t].pc = "init"
  /\ th' = [ th EXCEPT ![t].pc = IF g_NamedPipeServerSockets # 0 THEN "alloc" ELSE "new" ]
  /\ pcall' = NoPipeCall
  /\ UNCHANGED << threads, g_NamedPipeServerSockets, lists, pipes, fds, nonPipeVars >>

\* InitWinPRPipeModule: g_NamedPipeServerSockets = ArrayList_New(FALSE)
ArrayList_New(t) ==
  /\ th[t].pc = "new"
  /\ \E ok \in BOOLEAN :
       IF ok
       THEN /\ lists' = Append(lists, [ owner |-> 0, items |-> << >> ])
            /\ g_NamedPipeServerSockets' = Len(lists) + 1
            /\ th' = [ th EXCEPT ![t].pc = "alloc" ]
            /\ pcall' = NoPipeCall
       ELSE /\ Returns(t, "CreateNamedPipeA", 0, th[t].name, FALSE, INVALID_HANDLE_VALUE,
                       "NONE", FALSE, "none", 0)
            /\ UNCHANGED << lists, g_NamedPipeServerSockets >>
  /\ UNCHANGED << threads, pipes, fds, nonPipeVars >>

\* calloc of the pipe object, then ArrayList_Lock on the list the global points to now
CreateNamedPipeA_lock(t) ==
  /\ th[t].pc = "alloc"
  /\ \E ok \in BOOLEAN :
       IF ~ok \/ \A p \in PipeIds : pipes[p].state # "free"
       THEN /\ Returns(t, "CreateNamedPipeA", 0, th[t].name, FALSE, INVALID_HANDLE_VALUE,
                       "NONE", FALSE, "none", 0)
            /\ UNCHANGED << lists, pipes >>
       ELSE /\ lists[g_NamedPipeServerSockets].owner = 0
            /\ lists' = [ lists EXCEPT ![g_NamedPipeServerSockets].owner = t ]
            /\ pipes' = [ pipes EXCEPT ![NewPipe] = [ FreePipe EXCEPT !.state = "new" ] ]
            /\ th' = [ th EXCEPT ![t].pc = "locked", ![t].pipe = NewPipe ]
            /\ pcall' = NoPipeCall
  /\ UNCHANGED << threads, g_NamedPipeServerSockets, fds, nonPipeVars >>

\* the pipe object CreateNamedPipeA returns
ServerPipe(name, serverfd) ==
  [ state |-> "live", name |-> name, serverfd |-> serverfd, clientfd |-> -1,
    ServerMode |-> TRUE, pfnUnrefNamedPipe |-> TRUE, dwFlagsAndAttributes |-> {} ]

\* a variant that leaves the new socket open when bind or a later step fails
CreateNamedPipeA_body_leak(t) ==
  /\ th[t].pc = "locked"
  /\ \E fail \in { "none", "strdup", "socket", "bind" } :
       LET l == g_NamedPipeServerSockets
           p == th[t].pipe
           name == th[t].name
           i == FindEntry(lists[l].items, name)
           serverfd == NewFd(fds)
           Out == /\ pipes' = [ pipes EXCEPT ![p] = FreePipe ]
                  /\ th' = [ th EXCEPT ![t].pc = "unlock", ![t].ret = INVALID_HANDLE_VALUE ]
                  /\ UNCHANGED << lists, fds >>
           Shared ==
             /\ pipes' = [ pipes EXCEPT ![p] = ServerPipe(name, NewFd(fds)) ]
             /\ fds' = OpenFd(fds, NewFd(fds), "dup", name)
             /\ lists' = [ lists EXCEPT ![l].items[i].references = @ + 1 ]
             /\ th' = [ th EXCEPT ![t].pc = "unlock", ![t].ret = p ]
           First(f) ==
             /\ pipes' = [ pipes EXCEPT ![p] = ServerPipe(name, NewFd(f)) ]
             /\ fds' = OpenFd(f, NewFd(f), "dup", name)
             /\ lists' = [ lists EXCEPT ![l].items =
                             Append(@, [ name |-> name, serverfd |-> serverfd,
                                         references |-> 1 ]) ]
             /\ th' = [ th EXCEPT ![t].pc = "unlock", ![t].ret = p ]
       IN IF fail = "strdup" THEN Out
          ELSE IF i # 0 THEN Shared
          ELSE IF fail = "socket" \/ serverfd = -1 THEN Out
          ELSE IF fail = "bind"
          THEN /\ pipes' = [ pipes EXCEPT ![p] = FreePipe ]
               /\ th' = [ th EXCEPT ![t].pc = "unlock", ![t].ret = INVALID_HANDLE_VALUE ]
               /\ fds' = OpenFd(fds, serverfd, "base", name)
               /\ UNCHANGED lists
          ELSE First(OpenFd(fds, serverfd, "base", name))
  /\ pcall' = NoPipeCall
  /\ UNCHANGED << threads, g_NamedPipeServerSockets, nonPipeVars >>

\* the locked section of CreateNamedPipeA, on the list the global points to now: the entry
\* of the name is looked up; without one a socket is created, bound and listened on and an
\* entry appended; the instance gets a dup of the entry's descriptor and is counted.  The
\* failures: an allocation before the lookup (strdup), socket(), and any step from bind to
\* ArrayList_Append (bind), after which the new socket is closed again.
CreateNamedPipeA_body(t) ==
  /\ th[t].pc = "locked"
  /\ \E fail \in { "none", "strdup", "socket", "bind" } :
       LET l == g_NamedPipeServerSockets
           p == th[t].pipe
           name == th[t].name
           i == FindEntry(lists[l].items, name)
           serverfd == NewFd(fds)
           Out == /\ pipes' = [ pipes EXCEPT ![p] = FreePipe ]
                  /\ th' = [ th EXCEPT ![t].pc = "unlock", ![t].ret = INVALID_HANDLE_VALUE ]
                  /\ UNCHANGED << lists, fds >>
           Shared ==
             /\ pipes' = [ pipes EXCEPT ![p] = ServerPipe(name, NewFd(fds)) ]
             /\ fds' = OpenFd(fds, NewFd(fds), "dup", name)
             /\ lists' = [ lists EXCEPT ![l].items[i].references = @ + 1 ]
             /\ th' = [ th EXCEPT ![t].pc = "unlock", ![t].ret = p ]
           First(f) ==
             /\ pipes' = [ pipes EXCEPT ![p] = ServerPipe(name, NewFd(f)) ]
             /\ fds' = OpenFd(f, NewFd(f), "dup", name)
             /\ lists' = [ lists EXCEPT ![l].items =
                             Append(@, [ name |-> name, serverfd |-> serverfd,
                                         references |-> 1 ]) ]
             /\ th' = [ th EXCEPT ![t].pc = "unlock", ![t].ret = p ]
       IN IF fail = "strdup" THEN Out
          ELSE IF i # 0 THEN Shared
          ELSE IF fail = "socket" \/ serverfd = -1 THEN Out
          ELSE IF fail = "bind" THEN Out
          ELSE First(OpenFd(fds, serverfd, "base", name))
  /\ pcall' = NoPipeCall
  /\ UNCHANGED << threads, g_NamedPipeServerSockets, nonPipeVars >>

\* ArrayList_Unlock on the list the global points to now, and the return
CreateNamedPipeA_unlock(t) ==
  /\ th[t].pc = "unlock"
  /\ \E release \in BOOLEAN :
       lists' = ArrayList_Unlock(lists, g_NamedPipeServerSockets, t, release)
  /\ Returns(t, "CreateNamedPipeA", th[t].ret, th[t].name, FALSE, th[t].ret,
             "NONE", FALSE, "none", 0)
  /\ UNCHANGED << threads, g_NamedPipeServerSockets, pipes, fds, nonPipeVars >>

\* NamedPipeCloseHandle on a pipe no other thread is closing; every pipe CreateNamedPipeA
\* returned has pfnUnrefNamedPipe set, so winpr_unref_named_pipe is called
NamedPipeCloseHandle(t) ==
  /\ th[t].pc = "idle"
  /\ \E p \in PipeIds :
       /\ pipes[p].state = "live"
       /\ pipes[p].pfnUnrefNamedPipe
       /\ pipes' = [ pipes EXCEPT ![p].state = "closing" ]
       /\ th' = [ th EXCEPT ![t].pc = "unref", ![t].pipe = p, ![t].name = pipes[p].name ]
  /\ pcall' = NoPipeCall
  /\ UNCHANGED << threads, g_NamedPipeServerSockets, lists, fds, nonPipeVars >>

\* winpr_unref_named_pipe: ArrayList_Lock
winpr_unref_named_pipe_lock(t) ==
  /\ th[t].pc = "unref"
  /\ lists[g_NamedPipeServerSockets].owner = 0
  /\ lists' = [ lists EXCEPT ![g_NamedPipeServerSockets].owner = t ]
  /\ th' = [ th EXCEPT ![t].pc = "unref_locked" ]
  /\ pcall' = NoPipeCall
  /\ UNCHANGED << threads, g_NamedPipeServerSockets, pipes, fds, nonPipeVars >>

winpr_unref_named_pipe_keep(t) ==
  /\ th[t].pc = "unref_locked"
  /\ LET l == g_NamedPipeServerSockets
         i == FindEntry(lists[l].items, th[t].name)
     IN IF i = 0 THEN UNCHANGED << lists, fds >>
        ELSE /\ lists' = [ lists EXCEPT ![l].items[i].references = @ - 1 ]
             /\ fds' = fds
  /\ th' = [ th EXCEPT ![t].pc = "unref_unlock" ]
  /\ pcall' = NoPipeCall
  /\ UNCHANGED << threads, g_NamedPipeServerSockets, pipes, nonPipeVars >>

\* winpr_unref_named_pipe: the locked section.  The entry of the pipe's name loses a
\* reference; with none left it is removed from the list and its descriptor closed.
winpr_unref_named_pipe(t) ==
  /\ th[t].pc = "unref_locked"
  /\ LET l == g_NamedPipeServerSockets
         i == FindEntry(lists[l].items, th[t].name)
     IN IF i = 0 THEN UNCHANGED << lists, fds >>
        ELSE IF lists[l].items[i].references - 1 = 0
        THEN /\ lists' = [ lists EXCEPT ![l].items = RemoveAt(@, i) ]
             /\ fds' = CloseFd(fds, lists[l].items[i].serverfd)
        ELSE /\ lists' = [ lists EXCEPT ![l].items[i].references = @ - 1 ]
             /\ fds' = fds
  /\ th' = [ th EXCEPT ![t].pc = "unref_unlock" ]
  /\ pcall' = NoPipeCall
  /\ UNCHANGED << threads, g_NamedPipeServerSockets, pipes, nonPipeVars >>

\* winpr_unref_named_pipe: ArrayList_Unlock; then NamedPipeCloseHandle closes the pipe's
\* descriptors, frees it and returns TRUE
winpr_unref_named_pipe_unlock(t) ==
  /\ th[t].pc = "unref_unlock"
  /\ \E release \in BOOLEAN :
       lists' = ArrayList_Unlock(lists, g_NamedPipeServerSockets, t, release)
  /\ fds' = CloseFd(CloseFd(fds, pipes[th[t].pipe].serverfd), pipes[th[t].pipe].clientfd)
  /\ pipes' = [ pipes EXCEPT ![th[t].pipe] = FreePipe ]
  /\ Returns(t, "CloseHandle", th[t].pipe, th[t].name, FALSE, 1, "NONE", FALSE,
             "none", 0)
  /\ UNCHANGED << threads, g_NamedPipeServerSockets, nonPipeVars >>

\* what read() and write() come back with once they are no longer interrupted: some bytes,
\* end of file (read), or -1 with errno EWOULDBLOCK or another errno
ReadResults == { "data", "eof", "EWOULDBLOCK", "EIO" }

WriteResults == { "data", "EWOULDBLOCK", "EIO" }

\* io_status and errno of a result, for a request of one byte
IoStatus(res) == IF res = "data" THEN 1 ELSE IF res = "eof" THEN 0 ELSE -1

Errno(res) == IF res \in { "EWOULDBLOCK", "EIO" } THEN res ELSE "none"

\* a call on a pipe that is open and not being closed
LivePipes == { p \in PipeIds : pipes[p].state = "live" }

\* ConnectNamedPipe: accept on the pipe's descriptor; the connection gets a new descriptor
ConnectNamedPipe(t) ==
  /\ th[t].pc = "idle"
  /\ \E p \in LivePipes, overlapped \in BOOLEAN, ok \in BOOLEAN :
       LET clientfd == NewFd(fds) IN
       IF overlapped
       THEN /\ Returns(t, "ConnectNamedPipe", p, pipes[p].name, TRUE, 0,
                       "ERROR_NOT_SUPPORTED", FALSE, "none", 0)
            /\ UNCHANGED << pipes, fds >>
       ELSE IF ~ok \/ pipes[p].serverfd = -1 \/ clientfd = -1
       THEN /\ Returns(t, "ConnectNamedPipe", p, pipes[p].name, FALSE, 0,
                       "NONE", TRUE, "none", 0)
            /\ UNCHANGED << pipes, fds >>
       ELSE /\ Returns(t, "ConnectNamedPipe", p, pipes[p].name, FALSE, 1,
                       "NONE", TRUE, "none", 0)
            /\ pipes' = [ pipes EXCEPT ![p].clientfd = clientfd, ![p].ServerMode = FALSE ]
            /\ fds' = OpenFd(fds, clientfd, "client", pipes[p].name)
  /\ UNCHANGED << threads, g_NamedPipeServerSockets, lists, nonPipeVars >>

DisconnectNamedPipe(t) ==
  /\ th[t].pc = "idle"
  /\ \E p \in LivePipes :
       /\ Returns(t, "DisconnectNamedPipe", p, pipes[p].name, FALSE, 1, "NONE",
                  FALSE, "none", 0)
       /\ pipes' = [ pipes EXCEPT ![p].clientfd = -1 ]
       /\ fds' = CloseFd(fds, pipes[p].clientfd)
  /\ UNCHANGED << threads, g_NamedPipeServerSockets, lists, nonPipeVars >>

\* the result of NamedPipeRead: return value, last error, whether read() ran, errno, and
\* the value stored in *lpNumberOfBytesRead (-1 is (DWORD)-1)
NamedPipeRead_lax(p, overlapped, res, lastError) ==
  IF pipes[p].clientfd = -1
  THEN [ ret |-> 0, lastError |-> lastError, io |-> FALSE, errno |-> "none", n |-> 0 ]
  ELSE [ ret |-> IF IoStatus(res) > 0 THEN 1 ELSE 0,
         lastError |-> IF IoStatus(res) > 0 THEN lastError
                       ELSE IF res = "EWOULDBLOCK" THEN "ERROR_NO_DATA"
                       ELSE "ERROR_BROKEN_PIPE",
         io |-> TRUE, errno |-> Errno(res), n |-> IoStatus(res) ]

NamedPipeRead_result(p, overlapped, res, lastError) ==
  IF overlapped
  THEN [ ret |-> 0, lastError |-> "ERROR_NOT_SUPPORTED", io |-> FALSE, errno |-> "none",
         n |-> 0 ]
  ELSE IF pipes[p].clientfd = -1
  THEN [ ret |-> 0, lastError |-> lastError, io |-> FALSE, errno |-> "none", n |-> 0 ]
  ELSE [ ret |-> IF IoStatus(res) > 0 THEN 1 ELSE 0,
         lastError |-> IF IoStatus(res) > 0 THEN lastError
                       ELSE IF res = "EWOULDBLOCK" THEN "ERROR_NO_DATA"
                       ELSE "ERROR_BROKEN_PIPE",
         io |-> TRUE, errno |-> Errno(res), n |-> IoStatus(res) ]

NamedPipeWrite_strict(p, overlapped, res, lastError) ==
  IF overlapped
  THEN [ ret |-> 0, lastError |-> "ERROR_NOT_SUPPORTED", io |-> FALSE, errno |-> "none",
         n |-> 0 ]
  ELSE IF pipes[p].clientfd = -1
  THEN [ ret |-> 0, lastError |-> lastError, io |-> FALSE, errno |-> "none", n |-> 0 ]
  ELSE [ ret |-> IF IoStatus(res) < 0 THEN 0 ELSE 1,
         lastError |-> lastError, io |-> TRUE, errno |-> Errno(res),
         n |-> IoStatus(res) ]

\* the result of NamedPipeWrite; EWOULDBLOCK turns io_status into 0 and the call succeeds
NamedPipeWrite_result(p, overlapped, res, lastError) ==
  IF overlapped
  THEN [ ret |-> 0, lastError |-> "ERROR_NOT_SUPPORTED", io |-> FALSE, errno |-> "none",
         n |-> 0 ]
  ELSE IF pipes[p].clientfd = -1
  THEN [ ret |-> 0, lastError |-> lastError, io |-> FALSE, errno |-> "none", n |-> 0 ]
  ELSE [ ret |-> IF IoStatus(res) < 0 /\ res # "EWOULDBLOCK" THEN 0 ELSE 1,
         lastError |-> lastError, io |-> TRUE, errno |-> Errno(res),
         n |-> IF res = "EWOULDBLOCK" THEN 0 ELSE IoStatus(res) ]

\* the result of PipeRead on an anonymous pipe: end of file is a success with 0 bytes, and
\* an errno other than EWOULDBLOCK leaves the last error alone
PipeRead_result(overlapped, res, lastError) ==
  IF overlapped
  THEN [ ret |-> 0, lastError |-> "ERROR_NOT_SUPPORTED", io |-> FALSE, errno |-> "none",
         n |-> 0 ]
  ELSE [ ret |-> IF IoStatus(res) < 0 THEN 0 ELSE 1,
         lastError |-> IF res = "EWOULDBLOCK" THEN "ERROR_NO_DATA" ELSE lastError,
         io |-> TRUE, errno |-> Errno(res), n |-> IoStatus(res) ]

\* the result of PipeWrite on an anonymous pipe: it returns TRUE whatever write() did
PipeWrite_result(overlapped, res, lastError) ==
  IF overlapped
  THEN [ ret |-> 0, lastError |-> "ERROR_NOT_SUPPORTED", io |-> FALSE, errno |-> "none",
         n |-> 0 ]
  ELSE [ ret |-> 1, lastError |-> lastError, io |-> TRUE, errno |-> Errno(res),
         n |-> IF res = "EWOULDBLOCK" THEN 0 ELSE IoStatus(res) ]

\* the call of thread t returns the result r
ReturnsResult(t, op, p, overlapped, r) ==
  Returns(t, op, p, IF p = 0 THEN "" ELSE pipes[p].name, overlapped, r.ret, r.lastError,
          r.io, r.errno, r.n)

NamedPipeRead(t) ==
  /\ th[t].pc = "idle"
  /\ \E p \in LivePipes, overlapped \in BOOLEAN, res \in ReadResults :
       ReturnsResult(t, "NamedPipeRead", p, overlapped,
                     NamedPipeRead_result(p, overlapped, res, "NONE"))
  /\ UNCHANGED << threads, g_NamedPipeServerSockets, lists, pipes, fds, nonPipeVars >>

NamedPipeWrite(t) ==
  /\ th[t].pc = "idle"
  /\ \E p \in LivePipes, overlapped \in BOOLEAN, res \in WriteResults :
       ReturnsResult(t, "NamedPipeWrite", p, overlapped,
                     NamedPipeWrite_result(p, overlapped, res, "NONE"))
  /\ UNCHANGED << threads, g_NamedPipeServerSockets, lists, pipes, fds, nonPipeVars >>

\* PipeRead and PipeWrite on the ends of an anonymous pipe, which CreatePipe made
PipeRead(t) ==
  /\ th[t].pc = "idle"
  /\ \E overlapped \in BOOLEAN, res \in ReadResults :
       ReturnsResult(t, "PipeRead", 0, overlapped,
                     PipeRead_result(overlapped, res, "NONE"))
  /\ UNCHANGED << threads, g_NamedPipeServerSockets, lists, pipes, fds, nonPipeVars >>

PipeWrite(t) ==
  /\ th[t].pc = "idle"
  /\ \E overlapped \in BOOLEAN, res \in WriteResults :
       ReturnsResult(t, "PipeWrite", 0, overlapped,
                     PipeWrite_result(overlapped, res, "NONE"))
  /\ UNCHANGED << threads, g_NamedPipeServerSockets, lists, pipes, fds, nonPipeVars >>

\* one thread that has not called into the pipe module, which creates and closes pipes
InitPipe ==
  /\ rdp = Rdp0
  /\ client = Client0
  /\ settings = SettingsWith(Stages)
  /\ hooks = HookNames
  /\ pc = "idle"
  /\ stream = NoStream
  /\ rc = "NONE"
  /\ wire = << >>
  /\ obs = Obs0
  /\ vcw = NoWrite
  /\ vcwire = << >>
  /\ InitNoChannels
  /\ InitOpen
  /\ InitPipesWith({1}, MaxPipes, MaxFds)
  /\ InitNoLife

\* the steps of CreateNamedPipeA and of NamedPipeCloseHandle
NextRegistry ==
  \/ \E t \in threads : CreateNamedPipeA(t)
  \/ \E t \in threads : InitWinPRPipeModule(t)
  \/ \E t \in threads : ArrayList_New(t)
  \/ \E t \in threads : CreateNamedPipeA_lock(t)
  \/ \E t \in threads : CreateNamedPipeA_body(t)
  \/ \E t \in threads : CreateNamedPipeA_unlock(t)
  \/ \E t \in threads : NamedPipeCloseHandle(t)
  \/ \E t \in threads : winpr_unref_named_pipe_lock(t)
  \/ \E t \in threads : winpr_unref_named_pipe(t)
  \/ \E t \in threads : winpr_unref_named_pipe_unlock(t)

SpecPipe == InitPipe /\ [][NextRegistry]_vars

\* one thread in a process with little room, that has not called into the pipe module
InitPipeIO ==
  /\ rdp = Rdp0
  /\ client = Client0
  /\ settings = SettingsWith(Stages)
  /\ hooks = HookNames
  /\ pc = "idle"
  /\ stream = NoStream
  /\ rc = "NONE"
  /\ wire = << >>
  /\ obs = Obs0
  /\ vcw = NoWrite
  /\ vcwire = << >>
  /\ InitNoChannels
  /\ InitOpen
  /\ InitPipesWith({1}, IoPipes, IoFds)
  /\ InitNoLife

NextPipeIO ==
  \/ NextRegistry
  \/ \E t \in threads : ConnectNamedPipe(t)
  \/ \E t \in threads : DisconnectNamedPipe(t)
  \/ \E t \in threads : NamedPipeRead(t)
  \/ \E t \in threads : NamedPipeWrite(t)
  \/ \E t \in threads : PipeRead(t)
  \/ \E t \in threads : PipeWrite(t)

SpecPipeIO == InitPipeIO /\ [][NextPipeIO]_vars

\* several threads that have not called into the pipe module
InitPipeMT ==
  /\ rdp = Rdp0
  /\ client = Client0
  /\ settings = SettingsWith(Stages)
  /\ hooks = HookNames
  /\ pc = "idle"
  /\ stream = NoStream
  /\ rc = "NONE"
  /\ wire = << >>
  /\ obs = Obs0
  /\ vcw = NoWrite
  /\ vcwire = << >>
  /\ InitNoChannels
  /\ InitOpen
  /\ InitPipesWith(ThreadIds, MtPipes, MtFds)
  /\ InitNoLife

SpecPipeMT == InitPipeMT /\ [][NextRegistry]_vars

(***************************************************************************)
(* The construction and destruction of a peer: freerdp_peer_new,           *)
(* freerdp_peer_context_new_ex, freerdp_peer_initialize,                   *)
(* freerdp_peer_context_free and freerdp_peer_free.                        *)
(***************************************************************************)

\* the variables of every other component
nonLifeVars == << peerVars, vcVars, chanVars, lcVars, pipeVars >>

\* the steps of freerdp_peer_context_new_ex that can fail, in the order of the code
FailPoints ==
  << "calloc", "WLog_Get", "freerdp_settings_clone", "stream_dump_new", "metrics_new",
     "rdp_new", "CreateEvent", "errorDescription", "transport_attach",
     "transport_set_recv_callbacks", "transport_set_blocking_mode", "ContextNew" >>

\* the position of the step p; past the last one when no step fails
FailIndex(p) ==
  IF p = "none" THEN Len(FailPoints) + 1
  ELSE CHOOSE i \in 1..Len(FailPoints) : FailPoints[i] = p

\* the server certificates Initialize can find in the settings
Certificates == { "none", "compatible", "incompatible" }

\* freerdp_peer_new: allocate the peer and store the socket; calloc succeeds or not
freerdp_peer_new(ok) ==
  /\ life.client = "NULL"
  /\ life.call.op = "none"
  /\ life' = [ life EXCEPT !.client = IF ok THEN "allocated" ELSE "NULL",
                           !.call = [ NoLifeCall EXCEPT !.op = "freerdp_peer_new",
                                                        !.ret = ok ] ]
  /\ UNCHANGED nonLifeVars

\* freerdp_peer_context_free on the peer l, within the call c: the ContextFree hook
\* is called with whatever the context pointer is, then a context that exists is
\* released with its transport, which closes the socket attached to it
peer_context_free(l, c) ==
  LET c1 == IF "ContextFree" \in l.hooks
            THEN [ c EXCEPT !.freeArg = l.context, !.freeAfterNew = l.newCalled ]
            ELSE c
      closing == l.context # "NULL" /\ l.transportFd >= 0
  IN [ l EXCEPT !.context = "NULL",
                !.newCalled = FALSE,
                !.transportFd = -1,
                !.closes = IF closing THEN @ + 1 ELSE @,
                !.call = [ c1 EXCEPT !.closed = IF closing THEN 1 ELSE 0 ] ]

\* the same with the socket left with the peer by transport_attach
freerdp_peer_transport_setup_keep(l, fail) ==
  IF fail = "transport_attach" THEN l
  ELSE [ l EXCEPT !.transportFd = l.sockfd ]

\* freerdp_peer_transport_setup: a transport_attach that succeeds takes the socket
\* and the peer forgets it
freerdp_peer_transport_setup(l, fail) ==
  IF fail = "transport_attach" THEN l
  ELSE [ l EXCEPT !.transportFd = l.sockfd, !.sockfd = -1 ]

\* freerdp_peer_context_new_ex: build the context step by step, the step fail
\* failing; every failure goes through freerdp_peer_context_free
freerdp_peer_context_new_ex(withSettings, fail) ==
  /\ life.client = "allocated"
  /\ life.context = "NULL"
  /\ fail = "freerdp_settings_clone" => withSettings
  /\ fail = "ContextNew" => "ContextNew" \in life.hooks
  /\ LET at == FailIndex(fail)
         c  == [ NoLifeCall EXCEPT !.op = "freerdp_peer_context_new_ex",
                                   !.ret = (fail = "none"), !.failedAt = fail ]
         l1 == IF at > FailIndex("calloc") THEN [ life EXCEPT !.context = "partial" ]
               ELSE life
         l2 == IF at >= FailIndex("transport_attach")
               THEN freerdp_peer_transport_setup(l1, fail) ELSE l1
         l3 == IF at >= FailIndex("ContextNew")
               THEN [ l2 EXCEPT !.context = "complete",
                                !.newCalled = "ContextNew" \in life.hooks ]
               ELSE l2
     IN life' = IF fail = "none" THEN [ l3 EXCEPT !.call = c ]
                ELSE peer_context_free(l3, c)
  /\ UNCHANGED nonLifeVars

\* freerdp_peer_context_new_ex on a peer that was not allocated
freerdp_peer_context_new_ex_null ==
  /\ life.client = "NULL"
  /\ life.call.op = "freerdp_peer_new"
  /\ life' = [ life EXCEPT !.call = [ NoLifeCall EXCEPT
                                        !.op = "freerdp_peer_context_new_ex" ] ]
  /\ UNCHANGED nonLifeVars

\* freerdp_peer_context_free, called by the application
freerdp_peer_context_free ==
  /\ life.client = "allocated"
  /\ life.call.op # "freerdp_peer_context_free"
  /\ life' = peer_context_free(life, [ NoLifeCall EXCEPT
                                         !.op = "freerdp_peer_context_free",
                                         !.ret = TRUE ])
  /\ UNCHANGED nonLifeVars

\* the same without the return when there is no certificate
peer_initialize_any(l, s) ==
  LET drop == s.RdpSecurity /\ s.RdpServerCertificate # "compatible"
      s1 == IF drop THEN [ s EXCEPT !.RdpSecurity = FALSE, !.UseRdpSecurityLayer = FALSE ]
            ELSE s
  IN [ l EXCEPT !.settings = s1,
                !.call = [ NoLifeCall EXCEPT !.op = "freerdp_peer_initialize",
                                             !.asked = s.RdpSecurity,
                                             !.ret = TRUE, !.transitioned = TRUE ] ]

\* freerdp_peer_initialize on the peer l whose settings are s: no certificate is a
\* failure before the transition; a certificate that cannot do RDP security
\* switches RdpSecurity and UseRdpSecurityLayer off
peer_initialize(l, s) ==
  IF s.RdpServerCertificate = "none"
  THEN [ l EXCEPT !.settings = s,
                  !.call = [ NoLifeCall EXCEPT !.op = "freerdp_peer_initialize",
                                               !.asked = s.RdpSecurity ] ]
  ELSE LET drop == s.RdpSecurity /\ s.RdpServerCertificate = "incompatible"
           s1 == IF drop
                 THEN [ s EXCEPT !.RdpSecurity = FALSE, !.UseRdpSecurityLayer = FALSE ]
                 ELSE s
       IN [ l EXCEPT !.settings = s1,
                     !.call = [ NoLifeCall EXCEPT !.op = "freerdp_peer_initialize",
                                                  !.asked = s.RdpSecurity,
                                                  !.ret = TRUE, !.transitioned = TRUE ] ]

\* freerdp_peer_initialize, after the application has configured the certificate
\* and the security settings
freerdp_peer_initialize(cert, rdpSec, layer) ==
  /\ life.client = "allocated"
  /\ life.context = "complete"
  /\ life.call.op # "freerdp_peer_initialize"
  /\ life' = peer_initialize(life, [ RdpServerCertificate |-> cert,
                                     RdpSecurity |-> rdpSec,
                                     UseRdpSecurityLayer |-> layer ])
  /\ UNCHANGED nonLifeVars

\* freerdp_peer_free, after the context has been freed: the socket the peer still
\* holds is closed
freerdp_peer_free ==
  /\ life.client = "allocated"
  /\ life.context = "NULL"
  /\ LET closing == life.sockfd >= 0
     IN life' = [ life EXCEPT !.client = "freed",
                              !.closes = IF closing THEN @ + 1 ELSE @,
                              !.call = [ NoLifeCall EXCEPT
                                           !.op = "freerdp_peer_free", !.ret = TRUE,
                                           !.closed = IF closing THEN 1 ELSE 0 ] ]
  /\ UNCHANGED nonLifeVars

\* freerdp_peer_free on a peer that was not allocated
freerdp_peer_free_null ==
  /\ life.client = "NULL"
  /\ life.call.op \in { "freerdp_peer_new", "freerdp_peer_context_new_ex" }
  /\ life' = [ life EXCEPT !.call = [ NoLifeCall EXCEPT !.op = "freerdp_peer_free" ] ]
  /\ UNCHANGED nonLifeVars

\* an application with any of the two context hooks and a socket or none
InitLife ==
  /\ rdp = Rdp0
  /\ client = Client0
  /\ settings = SettingsWith(Stages)
  /\ hooks = HookNames
  /\ pc = "idle"
  /\ stream = NoStream
  /\ rc = "NONE"
  /\ wire = << >>
  /\ obs = Obs0
  /\ vcw = NoWrite
  /\ vcwire = << >>
  /\ InitNoChannels
  /\ InitOpen
  /\ InitNoPipes
  /\ \E hs \in SUBSET { "ContextNew", "ContextFree" }, fd \in SockFds :
       life = LifeWith(hs, fd)

NextLife ==
  \/ \E ok \in BOOLEAN : freerdp_peer_new(ok)
  \/ \E w \in BOOLEAN, fail \in { FailPoints[i] : i \in 1..Len(FailPoints) } \cup { "none" } :
       freerdp_peer_context_new_ex(w, fail)
  \/ freerdp_peer_context_new_ex_null
  \/ freerdp_peer_context_free
  \/ \E cert \in Certificates, rdpSec \in BOOLEAN, layer \in BOOLEAN :
       freerdp_peer_initialize(cert, rdpSec, layer)
  \/ freerdp_peer_free
  \/ freerdp_peer_free_null

SpecLife == InitLife /\ [][NextLife]_vars

(***************************************************************************)
(* The properties of the connection state machine driver.                  *)
(***************************************************************************)
DemandActive == "CAPABILITIES_EXCHANGE_DEMAND_ACTIVE"

\* C1 as the specification states it: the states reported to the ReachedState hook
\* are a prefix of the linear order, every report being the successor of the report
\* before it, or the re-entry of a reactivation at CAPABILITIES_EXCHANGE_DEMAND_ACTIVE.
C1_ReportedPrefix ==
  obs.reported =>
    IF obs.reachedPrev = "NONE" THEN obs.reachedLast = "INITIAL"
    ELSE \/ Rank(obs.reachedLast) = Rank(obs.reachedPrev) + 1
         \/ obs.reentered /\ obs.reachedLast = DemandActive

\* C1 amended: the reports start at INITIAL and never go back in the linear order
\* (a state may be reported again and optional states may be left out), except for
\* the re-entry of a reactivation at CAPABILITIES_EXCHANGE_DEMAND_ACTIVE.
C1_ReportedMonotonic ==
  obs.reported =>
    IF obs.reachedPrev = "NONE" THEN obs.reachedLast = "INITIAL"
    ELSE \/ Rank(obs.reachedLast) >= Rank(obs.reachedPrev)
         \/ obs.reentered /\ obs.reachedLast = DemandActive

\* a reactivation re-enters at CAPABILITIES_EXCHANGE_DEMAND_ACTIVE after ACTIVE was reported
C1_Witness ==
  /\ obs.reported /\ obs.reentered
  /\ obs.reachedPrev = "ACTIVE" /\ obs.reachedLast = DemandActive

\* C2: every change of the connection state goes to a state strictly later in the
\* linear order; the only move back is the reactivation jump to
\* CAPABILITIES_EXCHANGE_DEMAND_ACTIVE.
C2_Forward ==
  [][ rdp'.state # rdp.state =>
        \/ Rank(rdp'.state) > Rank(rdp.state)
        \/ /\ rdp'.state = DemandActive
           /\ "DEACTIVATE_REACTIVATE" \in rdp'.finalize
           /\ ~client'.activated ]_vars

\* the ACTIVE handler itself has made the reactivation jump (the Activate hook
\* started a reactivation), after the driver walked the whole sequence
C2_Witness ==
  /\ pc = "done" /\ rc = "SUCCESS"
  /\ obs.activateRet = "reactivate"
  /\ rdp.state = DemandActive

\* C3: PostConnect is called at most once for a peer, and only when the ACTIVE
\* handler runs with connected false; on every entry to ACTIVE with activated
\* false Activate is called exactly once, also after a reactivation.
C3_PostConnectOnceActivatePerEntry ==
  /\ obs.postConnect <= 1
  /\ client.connected => obs.postConnect = 1
  /\ obs.postConnectRet # "none" => rdp.state \in { "ACTIVE", DemandActive }
  /\ obs.activate <= 1
  /\ (pc = "run" /\ rdp.state = "ACTIVE" /\ ~client.activated) => obs.activate = 0
  /\ (rdp.state = "ACTIVE" /\ client.activated /\ "Activate" \in hooks) => obs.activate = 1

\* the peer is activated again after a reactivation cycle: Activate was called in
\* this callback, PostConnect was not
C3_Witness ==
  /\ pc = "done" /\ rdp.state = "ACTIVE" /\ client.activated
  /\ "DEACTIVATE_REACTIVATE" \in rdp.finalize
  /\ obs.activateRet = "true" /\ obs.postConnectRet = "none"
  /\ obs.postConnect = 1 /\ obs.activate = 1

\* C4 as the specification states it: with a hook unset, and no hook returning
\* false, the ACTIVE handler entered after the client's valid Font List does not
\* fail.
C4_UnsetHookNoFailure ==
  ( /\ hooks # HookNames
    /\ pc = "done" /\ rdp.state = "ACTIVE"
    /\ wire # << >> /\ wire[Len(wire)] = "FONT_MAP" /\ obs.dispatched = "none"
    /\ obs.postConnectRet # "false" /\ obs.activateRet # "false" ) => rc # "FAILED"

\* C5 as the specification states it: a FAILED of the dispatcher is the outcome of
\* the run of the driver that called it.
C5_DispatcherFailurePropagates ==
  obs.dispatched = "FAILED" => rc = "FAILED"

\* C6: a false from PostConnect, Activate or Capabilities makes the callback return
\* FAILED; after a false Capabilities no Demand Active was sent and the state is
\* still CAPABILITIES_EXCHANGE_DEMAND_ACTIVE; after a false PostConnect Activate
\* was not called and activated is false.
C6_HookFalseFails ==
  /\ obs.postConnectRet = "false" =>
       /\ pc = "done" /\ rc = "FAILED"
       /\ obs.activateRet = "none" /\ ~client.activated
  /\ obs.activateRet = "false" => pc = "done" /\ rc = "FAILED"
  /\ obs.capabilities = "false" =>
       /\ pc = "done" /\ rc = "FAILED"
       /\ \A i \in 1..Len(wire) : wire[i] # "DEMAND_ACTIVE"
       /\ rdp.state = DemandActive

\* the Capabilities hook has returned false during a reactivation
C6_Witness ==
  /\ obs.capabilities = "false"
  /\ "DEACTIVATE_REACTIVATE" \in rdp.finalize

CeilDiv(n, c) == (n + c - 1) \div c

\* the payloads of chunks, one after the other
RECURSIVE Payload(_)
Payload(chunks) ==
  IF chunks = << >> THEN << >> ELSE Head(chunks).data \o Payload(Tail(chunks))

\* the write has returned 1 on a peer whose VCChunkSize is positive
Written == vcw.pc = "returned" /\ vcw.ret = 1 /\ settings.VCChunkSize > 0

\* C8: a write of N bytes with VCChunkSize C > 0 that returns 1 has sent ceil(N/C)
\* chunks (none for N = 0); FIRST is on the first chunk and on no other, LAST on the
\* last and on no other, so that a chunk carries both iff N <= C; SHOW_PROTOCOL is on
\* every chunk iff the options of the MCS channel have it.
C8_ChunkCountAndFlags ==
  Written =>
    LET N == Len(vcw.data)
        C == settings.VCChunkSize
        k == Len(vcwire)
    IN /\ k = CeilDiv(N, C)
       /\ N = 0 => k = 0
       /\ \A i \in 1..k :
            /\ "FIRST" \in vcwire[i].flags <=> i = 1
            /\ "LAST" \in vcwire[i].flags <=> i = k
            /\ { "FIRST", "LAST" } \subseteq vcwire[i].flags <=> N <= C
            /\ "SHOW_PROTOCOL" \in vcwire[i].flags
                 <=> "SHOW_PROTOCOL" \in vcw.hChannel.options

\* a write of more than two chunks on a channel that shows the protocol has returned 1
C8_Witness ==
  /\ Written
  /\ Len(vcwire) > 2
  /\ "SHOW_PROTOCOL" \in vcw.hChannel.options

\* C9: after a write of N bytes with VCChunkSize C > 0 that returns 1, every chunk
\* header has totalLength = N, every chunk but the last has C bytes and the last has
\* N - (k-1)*C, the payloads in the order sent are buffer[0..N), and every chunk
\* went out on the channelId of the peer channel.
C9_ChunkPayloads ==
  Written =>
    LET N == Len(vcw.data)
        C == settings.VCChunkSize
        k == Len(vcwire)
    IN /\ \A i \in 1..k :
            /\ vcwire[i].totalLength = N
            /\ vcwire[i].channelId = vcw.hChannel.channelId
            /\ Len(vcwire[i].data) = IF i < k THEN C ELSE N - (k - 1) * C
       /\ Payload(vcwire) = vcw.data

\* a write has returned 1 after two chunks, the last of them shorter than the first
C9_Witness ==
  /\ Written
  /\ Len(vcwire) = 2
  /\ Len(vcwire[2].data) < Len(vcwire[1].data)
  /\ vcwire[1].data # vcwire[2].data \o vcwire[2].data

\* C10 as the specification states it: a write that returns -1 has put no chunk on
\* the wire.
C10_AllOrNothing ==
  (vcw.pc = "returned" /\ vcw.ret = -1) => vcwire = << >>

(***************************************************************************)
(* The properties of VirtualChannelOpen and VirtualChannelClose.           *)
(***************************************************************************)
\* C11 as the specification states it: a handle returned by Open is the peer-channel
\* of a joined MCS channel whose whole name equals the requested name but for the
\* case of its letters; the empty name gets no handle.
C11_OpenBindsEqualName ==
  (chcall.op = "open" /\ chcall.handle # 0) =>
    LET ch == mcs[chanHeap[chcall.handle].mcsChannel]
    IN /\ ch.joined
       /\ ch.handle = chcall.handle
       /\ chcall.name # << >>
       /\ SameName(chcall.name, ch.Name)

\* no joined MCS channel has this name
NoSuchChannel(name) == \A i \in 1..Len(mcs) : ~(mcs[i].joined /\ SameName(name, mcs[i].Name))

\* C12 as the specification states it: Open with the DYNAMIC option, with a name of
\* more than 8 characters, or with a name no joined MCS channel has, returns no
\* handle and changes neither the MCS channels nor the peer-channels.
C12_OpenRejects ==
  [][ ( /\ chcall'.op = "open"
        /\ \/ "DYNAMIC" \in chcall'.flags
           \/ Len(chcall'.name) > SvcMaxNameLength
           \/ NoSuchChannel(chcall'.name) )
      => /\ chcall'.handle = 0
         /\ UNCHANGED << mcs, chanHeap >> ]_vars

\* C13: every MCS channel has at most one open peer-channel, the handle of an MCS
\* channel is p exactly if the MCS channel of the open peer-channel p is that
\* channel, no open peer-channel has the DYNAMIC flag, and an Open that finds the
\* channel already open returns its handle and allocates nothing.
C13_OneBindingPerChannel ==
  /\ [] /\ \A i \in 1..Len(mcs) :
             /\ Cardinality({ p \in Live : chanHeap[p].mcsChannel = i }) <= 1
             /\ mcs[i].handle # 0 => mcs[i].handle \in Live
             /\ \A p \in Live : mcs[i].handle = p <=> chanHeap[p].mcsChannel = i
        /\ \A p \in Live : "DYNAMIC" \notin chanHeap[p].channelFlags
  /\ [][ \A i \in 1..Len(mcs) :
           ( /\ chcall'.op = "open" /\ chcall'.handle # 0
             /\ mcs[i].handle # 0
             /\ mcs'[i].handle = chcall'.handle )
           => /\ chcall'.handle = mcs[i].handle
              /\ ~chcall'.allocated
              /\ UNCHANGED << mcs, chanHeap >> ]_vars

\* an Open has returned the handle of an open channel while another channel is open too
C13_Witness ==
  /\ chcall.op = "open" /\ chcall.handle # 0 /\ ~chcall.allocated
  /\ Cardinality(Live) = 2

\* C14: Close on an open handle returns TRUE, clears the handle of the MCS channel
\* the peer-channel was bound to and leaves every other channel as it was; Close
\* without a handle returns FALSE and changes nothing; an Open that then binds a
\* channel without a handle allocates a peer-channel that did not exist before.
C14_CloseUnbinds ==
  [][ /\ chcall'.op = "close" =>
           IF chcall'.h = 0
           THEN ~chcall'.ok /\ UNCHANGED << mcs, chanHeap >>
           ELSE LET b == chanHeap[chcall'.h].mcsChannel
                IN /\ chcall'.ok
                   /\ mcs[b].handle = chcall'.h
                   /\ mcs'[b].handle = 0
                   /\ \A i \in 1..Len(mcs) : i # b => mcs'[i] = mcs[i]
                   /\ chanHeap'[chcall'.h].freed
                   /\ \A p \in 1..Len(chanHeap) : p # chcall'.h => chanHeap'[p] = chanHeap[p]
      /\ \A i \in 1..Len(mcs) :
           ( /\ chcall'.op = "open" /\ chcall'.handle # 0
             /\ mcs[i].handle = 0
             /\ mcs'[i].handle = chcall'.handle )
           => /\ chcall'.allocated
              /\ chcall'.handle \notin 1..Len(chanHeap)
              /\ ~chanHeap'[chcall'.handle].freed ]_vars

\* a channel that was closed has been opened again, on a peer with another joined channel
C14_Witness ==
  /\ chcall.op = "open" /\ chcall.allocated
  /\ \E p \in 1..Len(chanHeap) :
       /\ chanHeap[p].freed
       /\ chanHeap[p].mcsChannel = chanHeap[chcall.handle].mcsChannel
  /\ \E i \in 1..Len(mcs) : i # chanHeap[chcall.handle].mcsChannel /\ mcs[i].joined

(***************************************************************************)
(* The properties of Close and SendChannelData.                            *)
(***************************************************************************)
\* C15: once Close has been called on a peer, no later operation writes a PDU to the wire,
\* and every later SendChannelData returns an error.
C15_NothingAfterClose ==
  [][ closed => /\ lcwire' = lcwire
                /\ lccall'.op = "send" => ~lccall'.ret ]_vars

CloseOrders ==
  { << >>, << "DEACTIVATE_ALL" >>,
    << "DEACTIVATE_ALL", "ERROR_INFO" >>,
    << "DEACTIVATE_ALL", "DISCONNECT_PROVIDER_ULTIMATUM" >>,
    << "DEACTIVATE_ALL", "ERROR_INFO", "DISCONNECT_PROVIDER_ULTIMATUM" >> }

InRange(seq) == { seq[i] : i \in 1..Len(seq) }

\* C16: a Close on a peer whose selected protocol carries PROTOCOL_FAILED_NEGO writes nothing
\* and returns TRUE.  Any other Close writes Deactivate-All, then an error-info PDU exactly
\* when SupportErrorInfoPdu is set (and that send goes through), then the
\* disconnect-provider-ultimatum, in this order; when Deactivate-All cannot be sent it
\* returns FALSE and writes no ultimatum; otherwise it returns what the ultimatum's send returns.
C16_CloseSequence ==
  lccall.op = "close" =>
    IF "FAILED_NEGO" \in rdp.protocol
    THEN lccall.ret /\ lccall.wrote = << >>
    ELSE /\ lccall.wrote \in CloseOrders
         /\ ~lccall.deact => ~lccall.ret /\ lccall.wrote = << >>
         /\ lccall.deact =>
              /\ lccall.wrote # << >> /\ lccall.wrote[1] = "DEACTIVATE_ALL"
              /\ "ERROR_INFO" \in InRange(lccall.wrote)
                   <=> (settings.SupportErrorInfoPdu /\ lccall.err)
              /\ "DISCONNECT_PROVIDER_ULTIMATUM" \in InRange(lccall.wrote) <=> lccall.ult
              /\ lccall.ret = lccall.ult

\* a Close that wrote all three PDUs, and the peer's negotiation had not failed
C16_Witness ==
  /\ lccall.op = "close"
  /\ "FAILED_NEGO" \notin rdp.protocol
  /\ lccall.wrote = << "DEACTIVATE_ALL", "ERROR_INFO", "DISCONNECT_PROVIDER_ULTIMATUM" >>
  /\ lccall.ret

(***************************************************************************)
(* The properties of the pipe module.                                      *)
(***************************************************************************)
\* no thread is inside CreateNamedPipeA or NamedPipeCloseHandle
Quiescent == \A t \in threads : th[t].pc = "idle"

\* the entries of the registry the global points to
Registry ==
  IF g_NamedPipeServerSockets = 0 THEN << >> ELSE lists[g_NamedPipeServerSockets].items

EntriesOf(items, name) == { i \in 1..Len(items) : items[i].name = name }

\* the server pipes created with the name that are open
Instances(name) == { p \in PipeIds : pipes[p].state # "free" /\ pipes[p].name = name }

\* the open descriptors of sockets bound for the name
BaseFds(name) == { fd \in FdRange : fds[fd].kind = "base" /\ fds[fd].name = name }

\* C17: after any sequence of CreateNamedPipeA and CloseHandle calls, for every pipe name
\* the registry holds at most one entry, whose descriptor is the one open base socket of
\* the name and whose references is the number of open server pipes of the name; with no
\* such pipe left (none created, or the last one closed) there is no entry and no base
\* socket of the name.
C17_RegistryCounts ==
  Quiescent =>
    \A name \in PipeNames :
      /\ Cardinality(EntriesOf(Registry, name)) <= 1
      /\ \A i \in EntriesOf(Registry, name) :
           Registry[i].references = Cardinality(Instances(name))
      /\ BaseFds(name) = { Registry[i].serverfd : i \in EntriesOf(Registry, name) }
      /\ Instances(name) = {} <=> EntriesOf(Registry, name) = {}

\* the last pipe named "p" has just been closed while two pipes named "q" are open
C17_Witness ==
  /\ Quiescent
  /\ pcall.op = "CloseHandle" /\ pcall.name = "p"
  /\ Instances("p") = {}
  /\ \E i \in EntriesOf(Registry, "q") : Registry[i].references = 2

\* C18: with CreateNamedPipeA and CloseHandle running on several threads from the very
\* first call on, there is one registry; a thread in a locked section holds the lock of the
\* registry; over all lists there is at most one entry and one open base socket per name;
\* and when no call is running the references of an entry is the number of open pipes of
\* its name (no increment or decrement is lost).
C18_OneRegistryUnderLock ==
  /\ Len(lists) <= 1
  /\ \A t \in threads :
       th[t].pc \in { "locked", "unlock", "unref_locked", "unref_unlock" }
         => lists[g_NamedPipeServerSockets].owner = t
  /\ \A name \in PipeNames :
       /\ Cardinality({ << l, i >> \in (1..Len(lists)) \X PipeIds :
                          i <= Len(lists[l].items) /\ lists[l].items[i].name = name }) <= 1
       /\ Cardinality(BaseFds(name)) <= 1
       /\ Quiescent =>
            /\ \A i \in EntriesOf(Registry, name) :
                 Registry[i].references = Cardinality(Instances(name))
            /\ Instances(name) # {} => EntriesOf(Registry, name) # {}

\* C19: a write on an anonymous or a named pipe whose write() fails with EWOULDBLOCK
\* returns TRUE with 0 bytes written, and a read whose read() fails with EWOULDBLOCK
\* returns FALSE with the last error ERROR_NO_DATA.
C19_WouldBlock ==
  (pcall.io /\ pcall.errno = "EWOULDBLOCK") =>
    /\ pcall.op \in { "PipeWrite", "NamedPipeWrite" } => pcall.ret = 1 /\ pcall.n = 0
    /\ pcall.op \in { "PipeRead", "NamedPipeRead" } =>
         pcall.ret = 0 /\ pcall.lastError = "ERROR_NO_DATA"

\* a write on a connected named pipe that would have blocked
C19_Witness ==
  /\ pcall.op = "NamedPipeWrite"
  /\ pcall.io /\ pcall.errno = "EWOULDBLOCK"
  /\ pipes[pcall.h].clientfd # -1

\* C20: a read or write on a pipe and a ConnectNamedPipe called with lpOverlapped, and a
\* CreateNamedPipeA called with FILE_FLAG_OVERLAPPED, fail with the last error
\* ERROR_NOT_SUPPORTED, make no system call, and leave the pipe objects, the descriptors
\* and the registry as they were.
C20_OverlappedRejected ==
  [][ ( /\ pcall'.op \in { "PipeRead", "PipeWrite", "NamedPipeRead", "NamedPipeWrite",
                           "ConnectNamedPipe", "CreateNamedPipeA" }
        /\ pcall'.overlapped )
      => /\ pcall'.ret = 0
         /\ pcall'.lastError = "ERROR_NOT_SUPPORTED"
         /\ ~pcall'.io
         /\ UNCHANGED << pipes, fds, lists, g_NamedPipeServerSockets >> ]_vars

\* a read with lpOverlapped on a connected named pipe, on which a read would run
C20_Witness ==
  /\ pcall.op = "NamedPipeRead"
  /\ pcall.overlapped
  /\ pipes[pcall.h].clientfd # -1
  /\ Registry # << >>

(***************************************************************************)
(* The properties of the stages of the connection sequence.                *)
(***************************************************************************)
\* C21: the Logon hook is called in NEGO with automatic = true, the identity of NLA
\* copied into the peer, exactly when the selected protocol includes HYBRID, and
\* with automatic = false otherwise; with HYBRID the NLA state is freed when the
\* state becomes MCS_CREATE_REQUEST, and so before any MCS PDU is accepted.
C21_LogonAutomaticIffHybrid ==
  IF Rank(rdp.state) < Rank("MCS_CREATE_REQUEST")
  THEN obs.logon = "none" /\ client.identity = "none" /\ rdp.nla = "none"
  ELSE LET hybrid == "HYBRID" \in rdp.protocol
       IN /\ obs.logon = IF "Logon" \notin hooks THEN "none"
                         ELSE IF hybrid THEN "automatic" ELSE "manual"
          /\ client.identity = IF hybrid THEN "nla" ELSE "none"
          /\ rdp.nla = IF hybrid THEN "freed" ELSE "none"
          /\ settings.NlaSecurity = hybrid

\* the NEGO handler has selected HYBRID and called Logon: the callback returns in
\* MCS_CREATE_REQUEST with the NLA state freed
C21_Witness ==
  /\ pc = "done" /\ rc = "SUCCESS" /\ rdp.state = "MCS_CREATE_REQUEST"
  /\ "HYBRID" \in rdp.protocol
  /\ obs.logon = "automatic" /\ client.identity = "nla" /\ rdp.nla = "freed"

\* C22: with ServerLicenseRequired false the first run of the LICENSING handler
\* that sends the valid-client packet returns CONTINUE and moves to
\* MULTITRANSPORT_BOOTSTRAPPING_REQUEST, the callback going on, without reading
\* anything of the client's PDU (a send that fails is FAILED, the state still
\* LICENSING); no licence request is ever sent and the licence is never in
\* progress, up to ACTIVE.
C22_LicensingNotRequired ==
  /\ [](~settings.ServerLicenseRequired =>
          /\ rdp.license \in { "INITIAL", "COMPLETED" }
          /\ \A i \in 1..Len(wire) : wire[i] # "LICENSE_REQUEST"
          /\ Rank(rdp.state) > Rank("LICENSING") => rdp.license = "COMPLETED")
  /\ [][ ( /\ pc \in { "idle", "run" } /\ rdp.state = "LICENSING"
           /\ rdp.license = "INITIAL" /\ ~settings.ServerLicenseRequired )
         => IF rc' = "FAILED"
            THEN rdp' = rdp /\ wire' = Machine.wire /\ pc' = "done"
            ELSE /\ rc' = "CONTINUE" /\ pc' = "run"
                 /\ rdp'.state = "MULTITRANSPORT_BOOTSTRAPPING_REQUEST"
                 /\ rdp'.license = "COMPLETED"
                 /\ wire' = Append(Machine.wire, "LICENSE_VALID_CLIENT")
                 /\ obs'.dispatched = "none"
                 /\ stream'.rem = Machine.rem ]_vars

\* a peer without licensing is activated: its licence was completed by the
\* valid-client packet alone
C22_Witness ==
  /\ ~settings.ServerLicenseRequired
  /\ rdp.state = "ACTIVE" /\ client.activated
  /\ rdp.license = "COMPLETED"

\* C23 as the specification states it: while the state is ACTIVE and the peer is
\* activated, no step changes the settings.
C23_SettingsFrozenInActive ==
  [][ (rdp.state = "ACTIVE" /\ client.activated) => settings' = settings ]_vars

\* the well-formed input and virtual-channel PDUs of a client
InputOrChannelPdus ==
  { [ framing |-> "tpkt", kind |-> "DATA_INPUT", form |-> "ok" ],
    [ framing |-> "fastpath", kind |-> "FASTPATH_INPUT", form |-> "ok" ],
    [ framing |-> "tpkt", kind |-> "CHANNEL_DATA", form |-> "ok" ] }

\* the server has sent Deactivate-All and the client's Confirm Active is awaited
InReactivation ==
  /\ "DEACTIVATE_REACTIVATE" \in rdp.finalize /\ ~client.activated
  /\ rdp.state \in { DemandActive, "CAPABILITIES_EXCHANGE_MONITOR_LAYOUT",
                      "CAPABILITIES_EXCHANGE_CONFIRM_ACTIVE" }

\* C24: during a reactivation an input or virtual-channel PDU of the client reaches
\* its handler with a non-FAILED outcome and the state stays in the reactivation
\* sequence: the runs that send the Demand Active and the monitor layout leave the
\* PDU unread and go on, and the run in CAPABILITIES_EXCHANGE_CONFIRM_ACTIVE hands
\* it to the input or channel layer and returns SUCCESS in the same state.
C24_InputDuringReactivation ==
  ( InReactivation /\ pc \in { "idle", "run" } /\ ~rdp.abort /\ Machine.rem = "all" ) =>
    \A pdu \in Received \cap InputOrChannelPdus :
      CASE rdp.state = DemandActive ->
             LET r == case_CAPABILITIES_EXCHANGE_DEMAND_ACTIVE(Machine, E0)
             IN /\ r.ret = "CONTINUE" /\ r.m.rem = "all"
                /\ r.m.rdp.state = "CAPABILITIES_EXCHANGE_MONITOR_LAYOUT"
        [] rdp.state = "CAPABILITIES_EXCHANGE_MONITOR_LAYOUT" ->
             LET r == case_CAPABILITIES_EXCHANGE_MONITOR_LAYOUT(Machine, E0)
             IN /\ r.ret = "CONTINUE" /\ r.m.rem = "all"
                /\ r.m.rdp.state = "CAPABILITIES_EXCHANGE_CONFIRM_ACTIVE"
        [] OTHER ->
             LET r == case_CAPABILITIES_EXCHANGE_CONFIRM_ACTIVE(Machine, pdu, E0)
             IN /\ r.ret = "SUCCESS" /\ r.m.obs.dispatched = "SUCCESS"
                /\ r.m.rdp = rdp /\ r.m.client = client
                /\ r.m.rem = "none"
                /\ IF pdu.kind = "CHANNEL_DATA" THEN r.m.obs.channel
                   ELSE r.m.obs.input = (IF pdu.framing = "tpkt" THEN "slowpath"
                                         ELSE "fastpath")

\* a callback that began at the Demand Active of a reactivation has handed the
\* client's input to the input layer and returned SUCCESS, the Confirm Active
\* still awaited
C24_Witness ==
  /\ InReactivation /\ rdp.state = "CAPABILITIES_EXCHANGE_CONFIRM_ACTIVE"
  /\ pc = "done" /\ rc = "SUCCESS"
  /\ obs.input # "none" /\ obs.dispatched = "SUCCESS"
  /\ \E i \in 1..Len(wire) : wire[i] = "DEMAND_ACTIVE"

\* how much of the buffer is unread
RemLength(rem) == CASE rem = "all" -> 2 [] rem = "trail" -> 1 [] OTHER -> 0

\* the states still ahead in the linear order, plus the unread part of the buffer
Measure(s, rem) == (Cardinality(States) - Rank(s)) + RemLength(rem)

C26_FastPathOnlyInActive ==
  [][ (obs'.input = "fastpath" /\ obs.input # "fastpath") =>
        rdp.state = "ACTIVE" ]_vars

\* the finalization states, the flag each of them expects and the state after it
Finalization ==
  << [ state |-> "FINALIZATION_SYNC", flag |-> "CS_SYNCHRONIZE_PDU" ],
     [ state |-> "FINALIZATION_COOPERATE", flag |-> "CS_CONTROL_COOPERATE_PDU" ],
     [ state |-> "FINALIZATION_REQUEST_CONTROL", flag |-> "CS_CONTROL_REQUEST_PDU" ],
     [ state |-> "FINALIZATION_PERSISTENT_KEY_LIST", flag |-> "CS_PERSISTENT_KEY_LIST_PDU" ],
     [ state |-> "FINALIZATION_FONT_LIST", flag |-> "CS_FONT_LIST_PDU" ],
     [ state |-> "ACTIVE", flag |-> "NONE" ] >>

\* the persistent key list is not awaited: the cache is not persistent, or this is a
\* reactivation
KeyListSkipped ==
  /\ rdp.state = "FINALIZATION_PERSISTENT_KEY_LIST"
  /\ ~settings.BitmapCachePersistEnabled \/ "DEACTIVATE_REACTIVATE" \in rdp.finalize

\* a run of the driver in the i-th finalization state: the state stays or becomes the
\* next of the sequence, the latter only with the expected flag set; a PDU that the
\* dispatcher processed without the flag being set gives SUCCESS in the same state
FinalizationStep(i) ==
  /\ rdp'.state \in { Finalization[i].state, Finalization[i + 1].state }
  /\ rdp'.state # rdp.state => Finalization[i].flag \in rdp'.finalize
  /\ ( state_run_success(obs'.dispatched) /\ Finalization[i].flag \notin rdp'.finalize )
        => rc' = "SUCCESS" /\ rdp'.state = rdp.state

\* C27 as the specification states it: in each of the five finalization states the
\* driver advances, to the next state of the sequence, only when the flag the state
\* expects is set after the PDU was processed; a PDU processed without setting the
\* flag gives SUCCESS with the state unchanged.
C27_AdvanceOnlyOnFlag ==
  [][ \A i \in 1..5 :
        ( pc \in { "idle", "run" } /\ rdp.state = Finalization[i].state )
          => FinalizationStep(i) ]_vars

\* C27 amended: as stated, except that FINALIZATION_PERSISTENT_KEY_LIST is left for
\* FINALIZATION_FONT_LIST with CONTINUE, no PDU read and no flag set, when the
\* bitmap cache is not persistent or the finalization is that of a reactivation.
C27_AdvanceOnFlagOrSkip ==
  [][ \A i \in 1..5 :
        ( pc \in { "idle", "run" } /\ rdp.state = Finalization[i].state )
          => IF KeyListSkipped
             THEN /\ rc' = "CONTINUE" /\ rdp'.state = "FINALIZATION_FONT_LIST"
                  /\ rdp'.finalize = rdp.finalize
                  /\ obs'.dispatched = "none" /\ stream'.rem = Machine.rem
             ELSE FinalizationStep(i) ]_vars

\* the client's input was processed in FINALIZATION_COOPERATE, which the driver had
\* entered on the Synchronize PDU: SUCCESS, and the state has not moved
C27_Witness ==
  /\ pc = "done" /\ rc = "SUCCESS" /\ rdp.state = "FINALIZATION_COOPERATE"
  /\ obs.dispatched = "SUCCESS" /\ obs.input # "none"
  /\ rdp.finalize \cap FinalizeFlags = { "CS_SYNCHRONIZE_PDU" }

\* how many control-granted PDUs are among the PDUs w
Granted(w) == Cardinality({ i \in 1..Len(w) : w[i] = "CONTROL_GRANTED" })

\* C28: the server sends control-granted once in a finalization: a run of the
\* driver sends it exactly when it takes the state from
\* FINALIZATION_REQUEST_CONTROL to FINALIZATION_PERSISTENT_KEY_LIST, the only way
\* into that state, with the client's control request recorded; a run in
\* FINALIZATION_REQUEST_CONTROL that has the request recorded and cannot send is
\* FAILED in the same state.
C28_ControlGrantedOnce ==
  [][ ( pc \in { "idle", "run" } /\ pc' \in { "run", "done" } ) =>
        /\ Granted(wire') - Granted(Machine.wire) =
             IF /\ rdp.state = "FINALIZATION_REQUEST_CONTROL"
                /\ rdp'.state = "FINALIZATION_PERSISTENT_KEY_LIST"
             THEN 1 ELSE 0
        /\ Granted(wire') > Granted(Machine.wire) =>
             /\ "CS_CONTROL_REQUEST_PDU" \in rdp'.finalize
             /\ wire'[Len(wire')] = "CONTROL_GRANTED"
        /\ ( rdp'.state = "FINALIZATION_PERSISTENT_KEY_LIST" /\ rdp'.state # rdp.state )
             => rdp.state = "FINALIZATION_REQUEST_CONTROL"
        /\ ( /\ rdp.state = "FINALIZATION_REQUEST_CONTROL"
             /\ "CS_CONTROL_REQUEST_PDU" \in rdp'.finalize
             /\ rdp'.state = rdp.state )
             => rc' = "FAILED" /\ pc' = "done" ]_vars

\* the control request of the client was answered with control-granted during a
\* reactivation
C28_Witness ==
  /\ pc \in { "run", "done" } /\ rdp.state = "FINALIZATION_PERSISTENT_KEY_LIST"
  /\ { "CS_CONTROL_REQUEST_PDU", "DEACTIVATE_REACTIVATE" } \subseteq rdp.finalize
  /\ obs.dataType = "DATA_CONTROL_REQUEST"
  /\ wire = << "CONTROL_GRANTED" >>

\* the LICENSING handler run on the present machine with the licence aborted
LicensingAborted(pdu) == case_LICENSING([ Machine EXCEPT !.rdp.license = "ABORTED" ], pdu, E0)

\* C29: a run of the driver in LICENSING leaves the state only for
\* MULTITRANSPORT_BOOTSTRAPPING_REQUEST, with CONTINUE and the licence completed
\* (by the licence exchange or by the valid-client packet of a peer that requires
\* no licence); with the licence aborted the outcome is FAILED in LICENSING; the
\* first run on a peer that requires a licence sends the licence request and
\* returns SUCCESS in LICENSING (FAILED when it cannot be sent).
C29_LicensingExit ==
  /\ []( rdp.license = "ABORTED" =>
           /\ rdp.state = "LICENSING"
           /\ (pc = "done" /\ rc = "FAILED") \/ pc = "closed" )
  /\ []( InState("LICENSING") =>
           \A pdu \in Received :
             /\ LicensingAborted(pdu).ret = "FAILED"
             /\ LicensingAborted(pdu).m.rdp.state = "LICENSING" )
  /\ [][ ( pc \in { "idle", "run" } /\ rdp.state = "LICENSING" ) =>
           /\ rdp'.state \in { "LICENSING", "MULTITRANSPORT_BOOTSTRAPPING_REQUEST" }
           /\ rdp'.state # rdp.state <=> rc' = "CONTINUE"
           /\ rdp'.state # rdp.state => rdp'.license = "COMPLETED"
           /\ ( rdp.license = "INITIAL" /\ settings.ServerLicenseRequired ) =>
                IF rc' = "FAILED" THEN rdp' = rdp /\ wire' = Machine.wire
                ELSE /\ rc' = "SUCCESS" /\ rdp'.state = "LICENSING"
                     /\ rdp'.license = "IN_PROGRESS"
                     /\ wire' = Append(Machine.wire, "LICENSE_REQUEST")
                     /\ obs'.dispatched = "none" ]_vars

\* the licence PDU of the client has completed the licence of a peer that requires
\* one, and the driver goes on in MULTITRANSPORT_BOOTSTRAPPING_REQUEST
C29_Witness ==
  /\ settings.ServerLicenseRequired
  /\ pc = "run" /\ rc = "CONTINUE"
  /\ rdp.state = "MULTITRANSPORT_BOOTSTRAPPING_REQUEST"
  /\ rdp.license = "COMPLETED" /\ obs.dispatched = "CONTINUE"

\* C30 as the specification states it: a run of the auto-detect handler that has
\* driven the auto-detect sub-machine of a peer with NetworkAutoDetect has the
\* outcome the sub-machine decides: SUCCESS short of LICENSING when requests are
\* pending, CONTINUE into LICENSING when it is complete, FAILED in any other state
\* of the sub-machine; without NetworkAutoDetect the run goes to LICENSING with
\* CONTINUE.
C30_AutoDetectOutcomes ==
  [][ ( /\ pc \in { "idle", "run" }
        /\ rdp.state \in { "CONNECT_TIME_AUTO_DETECT_REQUEST",
                            "CONNECT_TIME_AUTO_DETECT_RESPONSE" } ) =>
        IF ~settings.NetworkAutoDetect
        THEN rc' = "CONTINUE" /\ rdp'.state = "LICENSING"
        ELSE ( rdp.state = "CONNECT_TIME_AUTO_DETECT_REQUEST"
               \/ state_run_success(obs'.dispatched) ) =>
               CASE rdp'.autodetect = "REQUEST" ->
                      rc' = "SUCCESS" /\ rdp'.state = "CONNECT_TIME_AUTO_DETECT_RESPONSE"
                 [] rdp'.autodetect = "COMPLETE" ->
                      rc' = "CONTINUE" /\ rdp'.state = "LICENSING"
                 [] OTHER -> rc' = "FAILED" /\ rdp'.state = rdp.state ]_vars

(***************************************************************************)
(* The properties of the construction and destruction of a peer.           *)
(***************************************************************************)

\* the last call was freerdp_peer_initialize
Initialized == life.call.op = "freerdp_peer_initialize"

C31_WitnessNoCertificate ==
  /\ Initialized
  /\ life.settings.RdpServerCertificate = "none"
  /\ ~life.call.ret

\* the peer has been freed
PeerFreed == life.client = "freed" /\ life.call.op = "freerdp_peer_free"

\* C32: the socket given to freerdp_peer_new is closed by one owner only: it is never
\* closed twice; while the transport holds it the peer's sockfd is -1; and
\* freerdp_peer_free closes it exactly when the peer still holds it, so that a
\* freed peer has had its socket closed exactly once.
C32_SocketClosedOnce ==
  /\ life.closes <= 1
  /\ life.transportFd >= 0 => life.sockfd = -1
  /\ PeerFreed =>
       /\ life.call.closed = 1 <=> (life.sockfd >= 0 /\ life.sockfd = life.fd)
       /\ life.closes = IF life.fd >= 0 THEN 1 ELSE 0

\* a peer whose socket went to the transport has been freed: freerdp_peer_free
\* closed nothing and the socket was closed once
C32_Witness ==
  /\ PeerFreed
  /\ life.fd >= 0
  /\ life.sockfd = -1
  /\ life.call.closed = 0
  /\ life.closes = 1

\* a peer that never attached its socket has been freed, which closed it
C32_WitnessNeverAttached ==
  /\ PeerFreed
  /\ life.sockfd >= 0
  /\ life.call.closed = 1
  /\ life.closes = 1

\* C37: the ContextFree hook is invoked only for a context on which the ContextNew
\* hook was invoked before, and after a failed freerdp_peer_context_new_ex the
\* context pointer of the peer is null.
C37_ContextFreeAfterNew ==
  /\ "ContextNew" \in life.hooks /\ life.call.freeArg # "none" => life.call.freeAfterNew
  /\ life.call.op = "freerdp_peer_context_new_ex" /\ ~life.call.ret =>
       life.context = "NULL"

\* after a failed freerdp_peer_context_new_ex the context pointer is null
C37_ContextNullAfterFailure ==
  life.call.op = "freerdp_peer_context_new_ex" /\ ~life.call.ret => life.context = "NULL"

(***************************************************************************)
(* The properties of the PDU dispatcher and of the handlers of NEGO and    *)
(* ACTIVE.                                                                 *)
(***************************************************************************)

NegoRun(pdu, proto, h) == case_NEGO(Machine, pdu, proto, [ E0 EXCEPT !.hook = h ])

\* C34: the Logon hook, when set, is invoked exactly once per connection, in the run
\* of NEGO whose negotiation succeeds and which ends in MCS_CREATE_REQUEST; its
\* result is stored in authenticated and decides nothing else: the run has the
\* same outcome SUCCESS and the same peer for either result.
C34_LogonOnce ==
  /\ [] ( ( rdp.state = "NEGO" /\ pc \in { "idle", "run" } ) =>
            \A pdu \in Received, proto \in Protocols :
              LET ok == rdp_server_accept_nego(Machine, pdu, proto).ok
                  t == NegoRun(pdu, proto, TRUE)
                  f == NegoRun(pdu, proto, FALSE)
              IN IF ok
                 THEN /\ t.ret = "SUCCESS" /\ f.ret = "SUCCESS"
                      /\ f.m.rdp.state = "MCS_CREATE_REQUEST"
                      /\ "Logon" \in hooks =>
                           /\ t.m.client.authenticated /\ ~f.m.client.authenticated
                           /\ f.m.obs.logon # "none"
                      /\ f.m = [ t.m EXCEPT !.client.authenticated =
                                              f.m.client.authenticated ]
                 ELSE f.m.obs.logon = obs.logon /\ f.ret = "FAILED" )
  /\ [][ /\ obs'.logon # obs.logon =>
              /\ "Logon" \in hooks
              /\ obs.logon = "none"
              /\ rdp.state = "NEGO" /\ rdp'.state = "MCS_CREATE_REQUEST"
              /\ rc' = "SUCCESS"
         /\ ( "Logon" \in hooks /\ rdp.state = "NEGO" /\ rdp'.state # "NEGO" ) =>
              obs'.logon # "none"
         /\ rdp'.state = "NEGO" => rdp.state \in { "INITIAL", "NEGO" } ]_vars

\* the Logon hook has returned false and the run of NEGO has ended in
\* MCS_CREATE_REQUEST with SUCCESS
C34_Witness ==
  /\ "Logon" \in hooks /\ obs.logon # "none"
  /\ ~client.authenticated
  /\ rdp.state = "MCS_CREATE_REQUEST"
  /\ pc = "done" /\ rc = "SUCCESS"

\* C40: once the NEGO handler has succeeded, RdpSecurity is true exactly when the
\* selected protocol is PROTOCOL_RDP, and then TlsSecurity, NlaSecurity and
\* RdstlsSecurity are all false.
C40_SecurityFlagsConsistent ==
  Rank(rdp.state) > Rank("NEGO") =>
    /\ settings.RdpSecurity <=> (rdp.protocol = {})
    /\ settings.RdpSecurity =>
         ~settings.TlsSecurity /\ ~settings.NlaSecurity /\ ~settings.RdstlsSecurity

\* the negotiation has selected PROTOCOL_RDP
C40_Witness ==
  /\ rdp.state = "MCS_CREATE_REQUEST" /\ pc = "done" /\ rc = "SUCCESS"
  /\ rdp.protocol = {}
  /\ settings.RdpSecurity /\ ~settings.TlsSecurity

\* the negotiation has selected TLS
C40_WitnessTls ==
  /\ rdp.state = "MCS_CREATE_REQUEST" /\ pc = "done" /\ rc = "SUCCESS"
  /\ rdp.protocol = { "SSL" }
  /\ ~settings.RdpSecurity /\ settings.TlsSecurity

\* C35: an activated peer is connected: the driver sets activated only in a run
\* that starts in ACTIVE and leaves connected true, and it never sets connected back
\* to false.
C35_ActivatedImpliesConnected ==
  /\ [] ( client.activated => client.connected )
  /\ [][ /\ ( client'.activated /\ ~client.activated ) =>
              rdp.state = "ACTIVE" /\ client'.connected
         /\ client.connected => client'.connected ]_vars

\* PostConnect has succeeded and the peer has been activated in ACTIVE
C35_Witness ==
  /\ rdp.state = "ACTIVE" /\ pc = "done" /\ rc = "SUCCESS"
  /\ obs.postConnectRet = "true"
  /\ client.connected /\ client.activated

(***************************************************************************)
(* The termination of the chunked channel write.                           *)
(***************************************************************************)

\* C36 as the specification states it: every pass of the loop of VirtualChannelWrite
\* that sends a chunk leaves strictly less to write, for every VCChunkSize, 0
\* included, so that the loop ends.
C36_LoopDecreases ==
  [][ ( vcw.pc = "loop" /\ vcw'.pc = "loop" ) => vcw'.length < vcw.length ]_vars

\* the same for a positive VCChunkSize
C36_LoopDecreasesPositive ==
  [][ ( vcw.pc = "loop" /\ vcw'.pc = "loop" /\ settings.VCChunkSize > 0 ) =>
        vcw'.length < vcw.length ]_vars

\* a write with VCChunkSize 0 has sent empty chunks and has as much to write as at
\* its start
C36_Stuck ==
  /\ vcw.pc = "loop" /\ settings.VCChunkSize = 0
  /\ Len(vcwire) = MaxChunks
  /\ vcw.length = vcw.totalLength /\ vcw.length > 0

(***************************************************************************)
(* The properties of the pipe writes and of a failing CreateNamedPipeA.    *)
(***************************************************************************)

\* the last call was a write that ran write()
WriteRan == pcall.io /\ pcall.op \in { "PipeWrite", "NamedPipeWrite" }

\* the byte count a write reports is the DWORD made of io_status n: an io_status of
\* -1 is stored as 2^32 - 1, more than any request; the requests are of one byte
ExceedsRequest(n) == n < 0 \/ n > 1

\* C38 as the specification states it: a write on an anonymous or a named pipe whose
\* write() fails with an errno other than EWOULDBLOCK returns FALSE, and no write
\* reports more bytes written than were requested.
C38_WriteErrors ==
  WriteRan =>
    /\ pcall.errno \notin { "none", "EWOULDBLOCK" } => pcall.ret = 0
    /\ ~ExceedsRequest(pcall.n)

\* the part that holds: NamedPipeWrite returns FALSE when write() fails with an
\* errno other than EWOULDBLOCK
C38_NamedPipeWriteFails ==
  ( WriteRan /\ pcall.op = "NamedPipeWrite" /\ pcall.errno \notin { "none", "EWOULDBLOCK" } )
    => pcall.ret = 0

\* PipeWrite has returned TRUE although write() failed with EIO
C38_PipeWriteHidesError ==
  /\ WriteRan /\ pcall.op = "PipeWrite"
  /\ pcall.errno = "EIO" /\ pcall.ret = 1
  /\ ExceedsRequest(pcall.n)

\* the step is one of thread t inside CreateNamedPipeA, or the return of its call
CreateStep(t) ==
  \/ th[t].pc \in { "init", "new", "alloc", "locked", "unlock" } /\ th'[t] # th[t]
  \/ th[t].pc = "idle" /\ th'[t].pc = "init"
  \/ th[t].pc = "idle" /\ pcall' # pcall /\ pcall'.op = "CreateNamedPipeA" /\ pcall'.t = t

\* the locked section of thread t has created the pipe
CreateSucceeds(t) == th[t].pc = "locked" /\ th'[t].ret # INVALID_HANDLE_VALUE

\* the call of thread t returns INVALID_HANDLE_VALUE
CreateFails(t) ==
  /\ pcall' # pcall /\ pcall'.op = "CreateNamedPipeA" /\ pcall'.t = t
  /\ pcall'.ret = INVALID_HANDLE_VALUE

\* C39: a CreateNamedPipeA that fails leaves the server-socket registry as it was: no
\* step of the call but the locked section that succeeds changes the entries, their
\* reference counts or the open descriptors, and the call that returns
\* INVALID_HANDLE_VALUE holds no registry lock.
C39_FailedCreateKeepsRegistry ==
  [][ \A t \in threads :
        /\ ( CreateStep(t) /\ ~CreateSucceeds(t) ) =>
             Registry' = Registry /\ fds' = fds
        /\ CreateFails(t) =>
             \A l \in 1..Len(lists') : lists'[l].owner # t ]_vars

\* the locked section of a CreateNamedPipeA has failed while the registry holds an
\* entry: the thread is about to release the lock and return INVALID_HANDLE_VALUE
C39_Witness ==
  \E t \in threads :
    /\ th[t].pc = "unlock" /\ th[t].ret = INVALID_HANDLE_VALUE
    /\ g_NamedPipeServerSockets # 0
    /\ lists[g_NamedPipeServerSockets].owner = t
    /\ Len(Registry) > 0

====
